---------------------------- MODULE Spec2Model ----------------------------
(***************************************************************************)
(* Reviewer assignment and reassignment engine of pr-reviewer-service.     *)
(*                                                                         *)
(* The committed database (teams, users, pull_requests, reviewers) is the  *)
(* shared state.  Every request runs on its own worker; a worker's         *)
(* position is its pc, and one step of a worker is one database call of    *)
(* the handler it runs.  Statements issued through *sqlx.Tx see the        *)
(* committed rows plus the transaction's own pending writes and take row   *)
(* locks that are held until commit or rollback; statements issued through *)
(* *sqlx.DB (r.db) see committed rows only (READ COMMITTED).               *)
(***************************************************************************)
EXTENDS Integers, Sequences, FiniteSets, TLC

\* ------------------------------------------------------------------ universe
Users == {"u1", "u2", "u3", "u4"}

TeamNames == {"t1", "t2"}

PRIDs == {"p1", "p2"}

Workers == {"w1", "w2"}

\* number of operations one behaviour starts
MaxOps == 4

\* number of MergePR calls one behaviour starts (each reads the clock once)
MaxClock == 2

\* largest count GetRandomActiveReviewers is asked for
MaxCount == 3

None == "none"

VARIABLES teams, users, prs, reviewers, prLock, userLock, proc, clock, nops

vars == <<teams, users, prs, reviewers, prLock, userLock, proc, clock, nops>>

dbvars == <<teams, users, prs, reviewers>>

\* ------------------------------------------------------------------ rows
\* a row of table users; team = None: no row with this id
NoUser == [team |-> None, active |-> FALSE]

\* a row of table pull_requests; status = "ABSENT": no row with this id
NoPR == [status |-> "ABSENT", author |-> None, need |-> FALSE, mergedAt |-> 0]

\* the rows of table reviewers of one pull request: user id -> number of rows
NoRows == [u \in Users |-> 0]

RECURSIVE SumRows(_, _)
SumRows(rows, S) ==
    IF S = {} THEN 0
    ELSE LET u == CHOOSE x \in S : TRUE IN rows[u] + SumRows(rows, S \ {u})

RowCount(rows) == SumRows(rows, Users)

RowUsers(rows) == {u \in Users : rows[u] > 0}

\* the orders in which a SELECT without ORDER BY may return the ids of a set
SetOrders(S) ==
    {s \in [1..Cardinality(S) -> S] : \A i, j \in 1..Cardinality(S) : i # j => s[i] # s[j]}

\* the rows a list of ids stands for
ToRows(ids) == [u \in Users |-> Cardinality({i \in 1..Len(ids) : ids[i] = u})]

\* one order of reviewer rows, for the readers that use the list as a set
RowList(rows) ==
    CHOOSE s \in [1..RowCount(rows) -> RowUsers(rows)] :
        \A u \in RowUsers(rows) : Cardinality({i \in 1..RowCount(rows) : s[i] = u}) = rows[u]

\* the orders in which a SELECT without ORDER BY may return reviewer rows
RowOrders(rows) ==
    {s \in [1..RowCount(rows) -> RowUsers(rows)] :
        \A u \in RowUsers(rows) : Cardinality({i \in 1..RowCount(rows) : s[i] = u}) = rows[u]}

SeqSet(s) == {s[i] : i \in 1..Len(s)}

\* ------------------------------------------------------------------ worker
Idle ==
    [pc |-> "idle", op |-> None, pr |-> None, user |-> None, team |-> None, flag |-> FALSE,
     teamID |-> None, ids |-> <<>>, row |-> NoPR, cur |-> <<>>, orig |-> <<>>, i |-> 0,
     newRev |-> None, mergedAt |-> 0, deact |-> {}, prIDs |-> {}, locked |-> {}, todo |-> {},
     curPR |-> None, snap |-> <<>>, pendPR |-> NoPR, pendRev |-> <<>>, touched |-> 0,
     ndeact |-> 0, err |-> None, committed |-> FALSE]

\* what a handler returns with an error: the error kind (the request is kept)
Failed(r, e) ==
    [Idle EXCEPT !.pc = "done", !.op = r.op, !.pr = r.pr, !.user = r.user, !.team = r.team,
                 !.err = e]

\* what a handler returns without error: api.PullRequest (id, author, status,
\* merged_at, assigned reviewers), ReplacedBy, the two counts of
\* DeactivateTeam, api.User (id, is_active), api.Team (name)
Returned(r, row, ids) ==
    [Idle EXCEPT !.pc = "done", !.op = r.op, !.committed = TRUE, !.pr = r.pr,
                 !.row = row, !.ids = ids, !.newRev = r.newRev, !.touched = r.touched,
                 !.ndeact = Cardinality(r.deact), !.team = r.team,
                 !.user = IF r.op \in {"SetIsActive", "ReassignReviewer"} THEN r.user ELSE None,
                 !.flag = r.flag]

Init ==
    /\ teams = {}
    /\ users = [u \in Users |-> NoUser]
    /\ prs = [p \in PRIDs |-> NoPR]
    /\ reviewers = [p \in PRIDs |-> NoRows]
    /\ prLock = [p \in PRIDs |-> None]
    /\ userLock = [u \in Users |-> None]
    /\ proc = [w \in Workers |-> Idle]
    /\ clock = 0
    /\ nops = 0

\* ------------------------------------------------------------------ selection
Swap(s, i, j) == [s EXCEPT ![i] = s[j], ![j] = s[i]]

\* a shuffle that draws every position from the whole list
RECURSIVE FisherYates_DrawFromAll(_, _, _)
FisherYates_DrawFromAll(ids, i, count) ==
    IF i > count THEN {<<>>}
    ELSE UNION {{<<Swap(ids, i, idx)[i]>> \o rest :
                    rest \in FisherYates_DrawFromAll(Swap(ids, i, idx), i + 1, count)} :
                idx \in 1..Len(ids)}

\* the partial shuffle of GetRandomActiveReviewers from position i on: every
\* draw idx of rand.Intn(numCandidates-i)+i, the swap, and result[i]
RECURSIVE FisherYates(_, _, _)
FisherYates(ids, i, count) ==
    IF i > count THEN {<<>>}
    ELSE UNION {{<<Swap(ids, i, idx)[i]>> \o rest :
                    rest \in FisherYates(Swap(ids, i, idx), i + 1, count)} :
                idx \in i..Len(ids)}

\* WHERE team_id = teamID AND is_active = true AND id NOT IN excludeUserIDs
CandidatePool_AnyStatus(teamID, excludeUserIDs) ==
    {u \in Users : users[u].team = teamID /\ u \notin excludeUserIDs}

CandidatePool(teamID, excludeUserIDs) ==
    {u \in Users : /\ users[u].team = teamID
                   /\ users[u].active
                   /\ u \notin excludeUserIDs}

\* the results GetRandomActiveReviewers can return on the committed users
GetRandomActiveReviewers(teamID, excludeUserIDs, count) ==
    LET pool == CandidatePool(teamID, excludeUserIDs)
        numCandidates == Cardinality(pool)
    IN  IF numCandidates = 0 THEN {<<>>}
        ELSE IF numCandidates <= count THEN SetOrders(pool)
        ELSE UNION {FisherYates(allCandidateIDs, 1, count) :
                        allCandidateIDs \in SetOrders(pool)}

\* the exclusion set: the current reviewers and the author
excludeIDs_AuthorOnly(authorID, currentReviewerIDs) == {authorID}

excludeIDs_ReviewersOnly(authorID, currentReviewerIDs) == SeqSet(currentReviewerIDs)

excludeIDs(authorID, currentReviewerIDs) == SeqSet(currentReviewerIDs) \cup {authorID}

\* ------------------------------------------------------------------ transaction
\* pending reviewer writes of a transaction: <<pr, "del" | "ins", user>>
RECURSIVE ApplyWrites(_, _, _)
ApplyWrites(rows, p, writes) ==
    IF writes = <<>> THEN rows
    ELSE LET wr == Head(writes)
             next == IF wr[1] # p THEN rows
                     ELSE IF wr[2] = "del" THEN [rows EXCEPT ![wr[3]] = 0]
                     ELSE [rows EXCEPT ![wr[3]] = @ + 1]
         IN  ApplyWrites(next, p, Tail(writes))

\* the reviewer rows of p a statement of r's transaction sees
TxRows(r, p) == ApplyWrites(reviewers[p], p, r.pendRev)

\* INSERT INTO reviewers one row per id
AssignReviewers(prID, reviewerIDs) ==
    [k \in 1..Len(reviewerIDs) |-> <<prID, "ins", reviewerIDs[k]>>]

\* DELETE the old reviewer's rows of the PR, INSERT the new reviewer's row
ReplaceReviewer_InsertOnly(prID, oldReviewerID, newReviewerID) ==
    <<<<prID, "ins", newReviewerID>>>>

\* a variant that deletes the old row and inserts none
ReplaceReviewer_DeleteOnly(prID, oldReviewerID, newReviewerID) ==
    <<<<prID, "del", oldReviewerID>>>>

ReplaceReviewer(prID, oldReviewerID, newReviewerID) ==
    <<<<prID, "del", oldReviewerID>>, <<prID, "ins", newReviewerID>>>>

\* UPDATE pull_requests SET status, merged_at, need_more_reviewers
UpdatePRStatus_KeepFlag(row, status, mergedAt) ==
    IF status = "MERGED"
    THEN [row EXCEPT !.status = status, !.mergedAt = mergedAt]
    ELSE [row EXCEPT !.status = status]

UpdatePRStatus(row, status, mergedAt) ==
    IF status = "MERGED"
    THEN [row EXCEPT !.status = status, !.mergedAt = mergedAt, !.need = FALSE]
    ELSE [row EXCEPT !.status = status]

\* a statement that locks the row of pull request prID (SELECT ... FOR UPDATE,
\* or the INSERT of its id) goes on when no other transaction holds the row
RowLockFree_Always(prID) == TRUE

RowLockFree(prID) == prLock[prID] = None

\* locks that outlive their transaction
Release_Keep(lock, w) == lock

Release(lock, w) == [x \in DOMAIN lock |-> IF lock[x] = w THEN None ELSE lock[x]]

\* a commit whose deferred rollback takes the writes back
Commit_ThenRollback(w, r, response) ==
    /\ prLock' = Release(prLock, w)
    /\ userLock' = Release(userLock, w)
    /\ proc' = [proc EXCEPT ![w] = response]
    /\ UNCHANGED <<dbvars, clock, nops>>

\* tx.Commit(): the pending writes of r become committed rows, the locks go
Commit(w, r, response) ==
    /\ prs' = IF r.pendPR # NoPR THEN [prs EXCEPT ![r.pr] = r.pendPR] ELSE prs
    /\ reviewers' = [p \in PRIDs |-> ApplyWrites(reviewers[p], p, r.pendRev)]
    /\ users' = [u \in Users |-> IF u \in r.deact THEN [users[u] EXCEPT !.active = FALSE]
                                  ELSE users[u]]
    /\ prLock' = Release(prLock, w)
    /\ userLock' = Release(userLock, w)
    /\ proc' = [proc EXCEPT ![w] = response]
    /\ UNCHANGED <<teams, clock, nops>>

\* the deferred tx.Rollback() after fn returned e: pending writes are dropped
Rollback_KeepPR(w, r, e) ==
    /\ prs' = IF r.pendPR # NoPR THEN [prs EXCEPT ![r.pr] = r.pendPR] ELSE prs
    /\ prLock' = Release(prLock, w)
    /\ userLock' = Release(userLock, w)
    /\ proc' = [proc EXCEPT ![w] = Failed(r, e)]
    /\ UNCHANGED <<teams, users, reviewers, clock, nops>>

\* a rollback that lets the bulk deactivation of the transaction through
Rollback_KeepDeactivated(w, r, e) ==
    /\ users' = [u \in Users |-> IF u \in r.deact THEN [users[u] EXCEPT !.active = FALSE]
                                  ELSE users[u]]
    /\ prLock' = Release(prLock, w)
    /\ userLock' = Release(userLock, w)
    /\ proc' = [proc EXCEPT ![w] = Failed(r, e)]
    /\ UNCHANGED <<teams, prs, reviewers, clock, nops>>

Rollback(w, r, e) ==
    /\ prLock' = Release(prLock, w)
    /\ userLock' = Release(userLock, w)
    /\ proc' = [proc EXCEPT ![w] = Failed(r, e)]
    /\ UNCHANGED <<dbvars, clock, nops>>

\* statements that leave the committed rows and the locks alone
Local(w, r) ==
    /\ proc' = [proc EXCEPT ![w] = r]
    /\ UNCHANGED <<dbvars, prLock, userLock, clock, nops>>

\* a handler is entered; the workers are interchangeable, so a request goes
\* to w2 only while w1 is busy
Start(w, r) ==
    /\ proc[w].pc = "idle"
    /\ w = "w1" \/ proc["w1"].pc # "idle"
    /\ nops < MaxOps
    /\ nops' = nops + 1
    /\ proc' = [proc EXCEPT ![w] = r]

\* ------------------------------------------------------------------ CreatePR
\* an entry that goes on to the selection whether or not the author exists
CreatePR_NoAuthorCheck(w, prID, authorID) ==
    /\ LET r == [Idle EXCEPT !.op = "CreatePR", !.pr = prID, !.user = authorID]
       IN  Start(w, [r EXCEPT !.pc = "cp_pick", !.teamID = users[authorID].team])
    /\ UNCHANGED <<dbvars, prLock, userLock, clock>>

\* the handler is entered; s.userPR.GetAuthorTeamID(ctx, authorID), on r.db
CreatePR(w, prID, authorID) ==
    /\ LET r == [Idle EXCEPT !.op = "CreatePR", !.pr = prID, !.user = authorID]
       IN  Start(w, IF users[authorID].team = None
                    THEN Failed(r, "NotFound")
                    ELSE [r EXCEPT !.pc = "cp_pick", !.teamID = users[authorID].team])
    /\ UNCHANGED <<dbvars, prLock, userLock, clock>>

\* s.userPR.GetRandomActiveReviewers(ctx, teamID, []string{authorID}, 2), on
\* r.db, and the domain.PullRequest built from its result
CreatePR_GetRandomActiveReviewers(w) ==
    LET r == proc[w] IN
    /\ r.pc = "cp_pick"
    /\ \E reviewerIDs \in GetRandomActiveReviewers(r.teamID, {r.user}, 2) :
          Local(w, [r EXCEPT !.pc = "cp_insert", !.ids = RowList(ToRows(reviewerIDs)),
                             !.row = [status |-> "OPEN", author |-> r.user,
                                      need |-> Len(reviewerIDs) < 2, mergedAt |-> 0]])

\* an INSERT that takes the place of a committed row with the same id
CreatePR_Insert_Overwrite(w) ==
    LET r == proc[w] IN
    /\ r.pc = "cp_insert"
    /\ RowLockFree(r.pr)
    /\ prLock' = [prLock EXCEPT ![r.pr] = w]
    /\ proc' = [proc EXCEPT ![w] =
                  [r EXCEPT !.pc = "cp_commit", !.pendPR = r.row,
                            !.pendRev = AssignReviewers(r.pr, r.ids)]]
    /\ UNCHANGED <<dbvars, userLock, clock, nops>>

\* an INSERT that neither waits for nor sees an uncommitted row with the id
CreatePR_Insert_NoWait(w) ==
    LET r == proc[w] IN
    /\ r.pc = "cp_insert"
    /\ IF prs[r.pr].status # "ABSENT" /\ prLock[r.pr] = None
       THEN Rollback(w, r, "AlreadyExists")
       ELSE /\ prLock' = [prLock EXCEPT ![r.pr] = w]
            /\ proc' = [proc EXCEPT ![w] =
                          [r EXCEPT !.pc = "cp_commit", !.pendPR = r.row,
                                    !.pendRev = AssignReviewers(r.pr, r.ids)]]
            /\ UNCHANGED <<dbvars, userLock, clock, nops>>

\* inside the transaction: s.prCmd.CreatePR (INSERT INTO pull_requests: a
\* committed row with the id is 23505, an uncommitted one makes the INSERT
\* wait) and s.prCmd.AssignReviewers when len(reviewerIDs) > 0
CreatePR_Insert(w) ==
    LET r == proc[w] IN
    /\ r.pc = "cp_insert"
    /\ IF prs[r.pr].status # "ABSENT"
       THEN Rollback(w, r, "AlreadyExists")
       ELSE /\ RowLockFree(r.pr)
            /\ prLock' = [prLock EXCEPT ![r.pr] = w]
            /\ proc' = [proc EXCEPT ![w] =
                          [r EXCEPT !.pc = "cp_commit", !.pendPR = r.row,
                                    !.pendRev = AssignReviewers(r.pr, r.ids)]]
            /\ UNCHANGED <<dbvars, userLock, clock, nops>>

CreatePR_Commit(w) ==
    /\ proc[w].pc = "cp_commit"
    /\ Commit(w, proc[w], Returned(proc[w], proc[w].row, proc[w].ids))

\* ------------------------------------------------------------------ MergePR
\* the handler is entered: mergedAt := time.Now().UTC() is read before the
\* transaction begins
MergePR(w, prID) ==
    /\ clock < MaxClock
    /\ clock' = clock + 1
    /\ Start(w, [Idle EXCEPT !.pc = "mg_lock", !.op = "MergePR", !.pr = prID,
                              !.mergedAt = clock + 1])
    /\ UNCHANGED <<dbvars, prLock, userLock>>

\* the row MergePR writes for the row it read under the lock
MergePRUpdate_Always(row, mergedAt) == UpdatePRStatus(row, "MERGED", mergedAt)

\* a merge that stamps merged_at again on a row that is MERGED
MergePRUpdate_Restamp(row, mergedAt) ==
    IF row.status # "MERGED" THEN UpdatePRStatus(row, "MERGED", mergedAt)
    ELSE [row EXCEPT !.mergedAt = mergedAt]

MergePRUpdate(row, mergedAt) ==
    IF row.status # "MERGED" THEN UpdatePRStatus(row, "MERGED", mergedAt) ELSE NoPR

\* s.prCmd.GetPRByIDWithLock (SELECT ... FOR UPDATE: no committed row is
\* ErrNotFound, a row locked by another transaction makes it wait), then
\* s.prCmd.UpdatePRStatus unless the row read is MERGED
MergePR_GetPRByIDWithLock(w) ==
    LET r == proc[w] IN
    /\ r.pc = "mg_lock"
    /\ IF prs[r.pr].status = "ABSENT"
       THEN Rollback(w, r, "NotFound")
       ELSE /\ RowLockFree(r.pr)
            /\ prLock' = [prLock EXCEPT ![r.pr] = w]
            /\ proc' = [proc EXCEPT ![w] =
                          [r EXCEPT !.pc = "mg_commit", !.row = prs[r.pr],
                                    !.pendPR = MergePRUpdate(prs[r.pr], r.mergedAt)]]
            /\ UNCHANGED <<dbvars, userLock, clock, nops>>

\* the pull request MergePR returns: the row read under the lock when it was
\* MERGED already, else that row with Status and MergedAt set by the handler
MergePRResult(r) ==
    IF r.row.status = "MERGED" THEN r.row
    ELSE [r.row EXCEPT !.status = "MERGED", !.mergedAt = r.mergedAt]

\* s.prQuery.GetReviewerIDs(ctx, tx, prID), the last statement under the
\* lock, and tx.Commit()
MergePR_Commit(w) ==
    LET r == proc[w] IN
    /\ r.pc = "mg_commit"
    /\ Commit(w, r, Returned(r, MergePRResult(r), RowList(TxRows(r, r.pr))))

\* ------------------------------------------------------------------ ReassignReviewer
\* pr.Status == api.PullRequestStatusMERGED
IsMerged_Never(row) == FALSE

IsMerged(row) == row.status = "MERGED"

\* the isAssigned loop over currentReviewerIDs
IsAssigned_Always(currentReviewerIDs, oldReviewerID) == TRUE

IsAssigned_IfAny(currentReviewerIDs, oldReviewerID) == currentReviewerIDs # <<>>

IsAssigned(currentReviewerIDs, oldReviewerID) == oldReviewerID \in SeqSet(currentReviewerIDs)

\* a variant that runs the isAssigned check before the status check
ReassignReviewer_AssignedFirst(w, prID, oldReviewerID) ==
    LET r == [Idle EXCEPT !.op = "ReassignReviewer", !.pr = prID, !.user = oldReviewerID,
                          !.row = prs[prID]]
    IN
    IF prs[prID].status = "ABSENT"
    THEN /\ Start(w, Failed(r, "NotFound"))
         /\ UNCHANGED <<dbvars, prLock, userLock, clock>>
    ELSE /\ RowLockFree(prID)
         /\ IF ~IsAssigned(RowList(reviewers[prID]), oldReviewerID)
            THEN /\ Start(w, Failed(r, "ReviewerNotAssigned"))
                 /\ UNCHANGED <<dbvars, prLock, userLock, clock>>
            ELSE IF IsMerged(prs[prID])
            THEN /\ Start(w, Failed(r, "PRMerged"))
                 /\ UNCHANGED <<dbvars, prLock, userLock, clock>>
            ELSE /\ Start(w, [r EXCEPT !.pc = "ra_team", !.cur = RowList(reviewers[prID])])
                 /\ prLock' = [prLock EXCEPT ![prID] = w]
                 /\ UNCHANGED <<dbvars, userLock, clock>>

\* the handler is entered; validateAndFindReplacement up to the isAssigned
\* check: s.prCmd.GetPRByIDWithLock, the status check, and
\* s.prQuery.GetReviewerIDs(ctx, tx, prID) under the lock just taken
ReassignReviewer(w, prID, oldReviewerID) ==
    LET r == [Idle EXCEPT !.op = "ReassignReviewer", !.pr = prID, !.user = oldReviewerID,
                          !.row = prs[prID]]
    IN
    IF prs[prID].status = "ABSENT"
    THEN /\ Start(w, Failed(r, "NotFound"))
         /\ UNCHANGED <<dbvars, prLock, userLock, clock>>
    ELSE /\ RowLockFree(prID)
         /\ IF IsMerged(prs[prID])
            THEN /\ Start(w, Failed(r, "PRMerged"))
                 /\ UNCHANGED <<dbvars, prLock, userLock, clock>>
            ELSE IF IsAssigned(RowList(reviewers[prID]), oldReviewerID)
            THEN /\ Start(w, [r EXCEPT !.pc = "ra_team", !.cur = RowList(reviewers[prID])])
                 /\ prLock' = [prLock EXCEPT ![prID] = w]
                 /\ UNCHANGED <<dbvars, userLock, clock>>
            ELSE /\ Start(w, Failed(r, "ReviewerNotAssigned"))
                 /\ UNCHANGED <<dbvars, prLock, userLock, clock>>

\* a lookup of the team of the PR author in place of the old reviewer's
Reassign_GetAuthorTeamID(w) ==
    LET r == proc[w] IN
    /\ r.pc = "ra_team"
    /\ IF users[r.row.author].team = None
       THEN Rollback(w, r, "NotFound")
       ELSE Local(w, [r EXCEPT !.pc = "ra_pick", !.teamID = users[r.row.author].team])

\* validateAndFindReplacement: s.userPR.GetReviewerTeamID(ctx, oldReviewerID), on r.db
Reassign_GetReviewerTeamID(w) ==
    LET r == proc[w] IN
    /\ r.pc = "ra_team"
    /\ IF users[r.user].team = None
       THEN Rollback(w, r, "NotFound")
       ELSE Local(w, [r EXCEPT !.pc = "ra_pick", !.teamID = users[r.user].team])

\* validateAndFindReplacement: excludeIDs, s.userPR.GetRandomActiveReviewers
\* (on r.db) and ErrNoCandidate; then s.prCmd.ReplaceReviewer and
\* s.prQuery.GetReviewerIDs(ctx, tx, prID) inside the transaction
Reassign_ReplaceReviewer(w) ==
    LET r == proc[w] IN
    /\ r.pc = "ra_pick"
    /\ \E newReviewerCandidates \in
             GetRandomActiveReviewers(r.teamID, excludeIDs(r.row.author, r.cur), 1) :
          IF Len(newReviewerCandidates) = 0
          THEN Rollback(w, r, "NoCandidate")
          ELSE LET rr == [r EXCEPT !.newRev = newReviewerCandidates[1],
                                   !.pendRev = ReplaceReviewer(r.pr, r.user,
                                                               newReviewerCandidates[1])]
               IN  Local(w, [rr EXCEPT !.pc = "ra_commit", !.ids = RowList(TxRows(rr, r.pr))])

Reassign_Commit(w) ==
    /\ proc[w].pc = "ra_commit"
    /\ Commit(w, proc[w], Returned(proc[w], proc[w].row, proc[w].ids))

\* ------------------------------------------------------------------ DeactivateTeam
\* UPDATE users SET is_active = false WHERE team_id AND is_active RETURNING id
DeactivateUsersByTeamID_AllTeams(teamID) ==
    {u \in Users : users[u].team # None /\ users[u].active}

DeactivateUsersByTeamID_AnyStatus(teamID) == {u \in Users : users[u].team = teamID}

DeactivateUsersByTeamID(teamID) == {u \in Users : users[u].team = teamID /\ users[u].active}

\* GetOpenPRsByReviewers, first query: SELECT DISTINCT pull_request_id FROM
\* reviewers JOIN pull_requests pr WHERE user_id IN (...) AND pr.status = 'OPEN'
OpenPRIDsByReviewers_AnyStatus(userIDs) ==
    {p \in PRIDs : \E u \in userIDs : reviewers[p][u] > 0}

OpenPRIDsByReviewers(userIDs) ==
    {p \in PRIDs : /\ prs[p].status = "OPEN"
                   /\ \E u \in userIDs : reviewers[p][u] > 0}

\* the handler is entered: s.teamRepo.GetTeamByName(ctx, tx, teamName);
\* s.repo.DeactivateUsersByTeamID(ctx, tx, team.ID), which waits for rows
\* another transaction locked and keeps the rows it updated locked; and, when
\* it deactivated a user, the first query of GetOpenPRsByReviewers
DeactivateTeam(w, teamName) ==
    LET r == [Idle EXCEPT !.op = "DeactivateTeam", !.team = teamName]
        deactivatedUserIDs == DeactivateUsersByTeamID(teamName)
        prIDs == OpenPRIDsByReviewers(deactivatedUserIDs)
    IN
    IF teamName \notin teams
    THEN /\ Start(w, Failed(r, "NotFound"))
         /\ UNCHANGED <<dbvars, prLock, userLock, clock>>
    ELSE /\ \A u \in deactivatedUserIDs : userLock[u] = None
         /\ Start(w, [r EXCEPT !.pc = IF prIDs = {} THEN "dt_commit" ELSE "dt_lock",
                               !.teamID = teamName, !.deact = deactivatedUserIDs,
                               !.prIDs = prIDs])
         /\ userLock' = [u \in Users |-> IF u \in deactivatedUserIDs THEN w ELSE userLock[u]]
         /\ UNCHANGED <<dbvars, prLock, clock>>

\* the loops of reassignPRsForDeactivatedUsers up to the next reviewer that
\* is in deactivatedSet: the records the worker can be in before its next
\* database call (prsToReassign comes out of a Go map, in any order)
RECURSIVE NextSlot(_)
NextSlot(r) ==
    IF r.curPR # None /\ r.i <= Len(r.orig)
    THEN IF r.orig[r.i] \in r.deact THEN {r}
         ELSE NextSlot([r EXCEPT !.i = @ + 1])
    ELSE IF r.todo = {} THEN {[r EXCEPT !.pc = "dt_commit", !.curPR = None]}
    ELSE UNION {UNION {NextSlot([r EXCEPT !.curPR = p, !.todo = @ \ {p}, !.orig = order,
                                          !.cur = order, !.i = 1]) :
                        order \in RowOrders(r.snap[p])} :
                p \in r.todo}

\* GetOpenPRsByReviewers, second query: SELECT ... FROM pull_requests WHERE
\* id IN (prIDs) FOR UPDATE locks the rows one after the other; after the
\* last one the third query reads the reviewer rows of the PRs and
\* mapReviewersToPRs groups them; reassignedCount = len(prsToReassign)
Deactivate_LockPR(w) ==
    LET r == proc[w] IN
    /\ r.pc = "dt_lock"
    /\ \E p \in r.prIDs \ r.locked :
          /\ RowLockFree(p)
          /\ prLock' = [prLock EXCEPT ![p] = w]
          /\ IF r.locked \cup {p} # r.prIDs
             THEN proc' = [proc EXCEPT ![w] = [r EXCEPT !.locked = @ \cup {p}]]
             ELSE \E next \in NextSlot([r EXCEPT !.pc = "dt_slot",
                                                !.locked = r.prIDs,
                                                !.snap = [q \in r.prIDs |-> TxRows(r, q)],
                                                !.todo = r.prIDs,
                                                !.touched = Cardinality(r.prIDs)]) :
                     proc' = [proc EXCEPT ![w] = next]
    /\ UNCHANGED <<dbvars, userLock, clock, nops>>

\* pr.ReviewerIDs[i] = newReviewerID for the first i with the old id
ReplaceFirst_Keep(ids, old, new) == ids

ReplaceFirst(ids, old, new) ==
    IF old \notin SeqSet(ids) THEN ids
    ELSE LET k == CHOOSE j \in 1..Len(ids) :
                      ids[j] = old /\ \A m \in 1..(j - 1) : ids[m] # old
         IN  [ids EXCEPT ![k] = new]

\* reassignPRsForDeactivatedUsers, one deactivated reviewer of one PR:
\* excludeIDs, s.userPR.GetRandomActiveReviewers(ctx, team.ID, excludeIDs, 1)
\* on r.db, and s.prCmd.ReplaceReviewer when a candidate was found
Deactivate_ReassignSlot_Propagate(w) ==
    LET r == proc[w]
        oldReviewerID == r.orig[r.i]
    IN
    /\ r.pc = "dt_slot"
    /\ \E candidates \in GetRandomActiveReviewers(
                              r.teamID, excludeIDs(prs[r.curPR].author, r.cur), 1) :
         IF Len(candidates) = 0
         THEN Rollback(w, r, "NoCandidate")
         ELSE \E next \in NextSlot(
                    [r EXCEPT !.i = @ + 1,
                              !.pendRev = @ \o ReplaceReviewer(r.curPR, oldReviewerID,
                                                                candidates[1]),
                              !.cur = ReplaceFirst(r.cur, oldReviewerID, candidates[1])]) :
                 Local(w, next)

\* a variant that excludes the author and the original reviewers only
Deactivate_ReassignSlot_ExcludeOriginal(w) ==
    LET r == proc[w]
        oldReviewerID == r.orig[r.i]
    IN
    /\ r.pc = "dt_slot"
    /\ \E candidates \in GetRandomActiveReviewers(
                              r.teamID, excludeIDs(prs[r.curPR].author, r.orig), 1) :
         \E next \in NextSlot(
                    IF Len(candidates) > 0
                    THEN [r EXCEPT !.i = @ + 1,
                                   !.pendRev = @ \o ReplaceReviewer(r.curPR, oldReviewerID,
                                                                     candidates[1]),
                                   !.cur = ReplaceFirst(r.cur, oldReviewerID, candidates[1])]
                    ELSE [r EXCEPT !.i = @ + 1]) :
            Local(w, next)

\* a variant that replaces any current reviewer of the pull request
Deactivate_ReassignSlot_AnyReviewer(w) ==
    LET r == proc[w] IN
    /\ r.pc = "dt_slot"
    /\ \E oldReviewerID \in SeqSet(r.cur) :
       \E candidates \in GetRandomActiveReviewers(
                              r.teamID, excludeIDs(prs[r.curPR].author, r.cur), 1) :
         \E next \in NextSlot(
                    IF Len(candidates) > 0
                    THEN [r EXCEPT !.i = @ + 1,
                                   !.pendRev = @ \o ReplaceReviewer(r.curPR, oldReviewerID,
                                                                     candidates[1]),
                                   !.cur = ReplaceFirst(r.cur, oldReviewerID, candidates[1])]
                    ELSE [r EXCEPT !.i = @ + 1]) :
            Local(w, next)

Deactivate_ReassignSlot(w) ==
    LET r == proc[w]
        oldReviewerID == r.orig[r.i]
    IN
    /\ r.pc = "dt_slot"
    /\ \E candidates \in GetRandomActiveReviewers(
                              r.teamID, excludeIDs(prs[r.curPR].author, r.cur), 1) :
         \E next \in NextSlot(
                    IF Len(candidates) > 0
                    THEN [r EXCEPT !.i = @ + 1,
                                   !.pendRev = @ \o ReplaceReviewer(r.curPR, oldReviewerID,
                                                                     candidates[1]),
                                   !.cur = ReplaceFirst(r.cur, oldReviewerID, candidates[1])]
                    ELSE [r EXCEPT !.i = @ + 1]) :
            Local(w, next)

Deactivate_Commit(w) ==
    /\ proc[w].pc = "dt_commit"
    /\ Commit(w, proc[w], Returned(proc[w], NoPR, <<>>))

\* ------------------------------------------------------------------ SetIsActive
\* UPDATE users SET is_active WHERE id RETURNING ..., one statement on ur.db;
\* it waits for a row another transaction locked
\* a variant that takes a deactivated user off the OPEN pull requests
SetIsActive_Unassign(w, userID, isActive) ==
    /\ LET r == [Idle EXCEPT !.op = "SetIsActive", !.user = userID, !.flag = isActive]
       IN  Start(w, IF users[userID].team = None
                    THEN Failed(r, "NotFound")
                    ELSE Returned(r, NoPR, <<>>))
    /\ userLock[userID] = None
    /\ users' = IF users[userID].team = None THEN users
                ELSE [users EXCEPT ![userID].active = isActive]
    /\ reviewers' = [p \in PRIDs |->
                       IF ~isActive /\ prs[p].status = "OPEN"
                       THEN [reviewers[p] EXCEPT ![userID] = 0]
                       ELSE reviewers[p]]
    /\ UNCHANGED <<teams, prs, prLock, userLock, clock>>

SetIsActive(w, userID, isActive) ==
    /\ LET r == [Idle EXCEPT !.op = "SetIsActive", !.user = userID, !.flag = isActive]
       IN  Start(w, IF users[userID].team = None
                    THEN Failed(r, "NotFound")
                    ELSE Returned(r, NoPR, <<>>))
    /\ userLock[userID] = None
    /\ users' = IF users[userID].team = None THEN users
                ELSE [users EXCEPT ![userID].active = isActive]
    /\ UNCHANGED <<teams, prs, reviewers, prLock, userLock, clock>>

\* ------------------------------------------------------------------ CreateTeamWithUsers
\* INSERT INTO users ... ON CONFLICT (id) DO UPDATE SET username, team_id, is_active
\* an insert that leaves a users row that exists as it is
upsertTeamMembers_InsertOnly(teamID, members) ==
    [u \in Users |-> IF u \in DOMAIN members /\ users[u].team = None
                     THEN [team |-> teamID, active |-> members[u]]
                     ELSE users[u]]

upsertTeamMembers(teamID, members) ==
    [u \in Users |-> IF u \in DOMAIN members
                     THEN [team |-> teamID, active |-> members[u]]
                     ELSE users[u]]

\* a call that upserts the members although the team name is taken
CreateTeamWithUsers_UpsertAnyway(w, teamName, members) ==
    /\ LET r == [Idle EXCEPT !.op = "CreateTeamWithUsers", !.team = teamName]
       IN  Start(w, IF teamName \in teams
                    THEN Failed(r, "AlreadyExists")
                    ELSE Returned(r, NoPR, <<>>))
    /\ \A u \in DOMAIN members : userLock[u] = None
    /\ teams' = teams \cup {teamName}
    /\ users' = upsertTeamMembers(teamName, members)
    /\ UNCHANGED <<prs, reviewers, prLock, userLock, clock>>

\* insertTeam (23505 is TeamAlreadyExistsError), upsertTeamMembers (it waits
\* for rows another transaction locked) and tx.Commit()
CreateTeamWithUsers(w, teamName, members) ==
    /\ LET r == [Idle EXCEPT !.op = "CreateTeamWithUsers", !.team = teamName]
       IN  Start(w, IF teamName \in teams
                    THEN Failed(r, "AlreadyExists")
                    ELSE Returned(r, NoPR, <<>>))
    /\ IF teamName \in teams
       THEN UNCHANGED <<teams, users>>
       ELSE /\ \A u \in DOMAIN members : userLock[u] = None
            /\ teams' = teams \cup {teamName}
            /\ users' = upsertTeamMembers(teamName, members)
    /\ UNCHANGED <<prs, reviewers, prLock, userLock, clock>>

\* ------------------------------------------------------------------ GetStats
\* COUNT(CASE WHEN pr.status = status THEN 1 END) over the rows of
\* users u LEFT JOIN reviewers r LEFT JOIN pull_requests pr of one user
RECURSIVE CountReviews(_, _, _)
CountReviews(userID, status, S) ==
    IF S = {} THEN 0
    ELSE LET p == CHOOSE x \in S : TRUE
         IN  (IF prs[p].status = status THEN reviewers[p][userID] ELSE 0)
             + CountReviews(userID, status, S \ {p})

\* a count that takes every reviewer row for a review of an OPEN pull request
GetUserStats_CountAll ==
    [u \in {x \in Users : users[x].team # None} |->
        [openReviews |-> CountReviews(u, "OPEN", PRIDs) + CountReviews(u, "MERGED", PRIDs),
         mergedReviews |-> CountReviews(u, "MERGED", PRIDs)]]

\* SELECT u.id, COUNT(...) open_reviews, COUNT(...) merged_reviews ... GROUP
\* BY u.id on r.db: one entry per users row
GetUserStats ==
    [u \in {x \in Users : users[x].team # None} |->
        [openReviews |-> CountReviews(u, "OPEN", PRIDs),
         mergedReviews |-> CountReviews(u, "MERGED", PRIDs)]]

\* ------------------------------------------------------------ HTTP errors
\* what errors.Is / errors.As can find in the chain of an error: the
\* ValidationError type, the sentinels of apperrors, the two AlreadyExists
\* types, and "Internal" for any other error (a driver or JSON error)
ErrorKinds ==
    {"Validation", "InvalidRequest", "NotFound", "TeamAlreadyExists", "PRAlreadyExists",
     "PRMerged", "ReviewerNotAssigned", "NoCandidate", "Internal"}

\* the chains the handlers pass to handleServiceError: every service and
\* repository wraps with %w, so the chain of a service error holds its one
\* kind; decode wraps the JSON error in ErrInvalidRequest
ErrorChains == {{k} : k \in ErrorKinds} \cup {{"InvalidRequest", "Internal"}}

\* the chain of the error a service call returned: CreateTeamWithUsers
\* returns *TeamAlreadyExistsError, CreatePR *PRAlreadyExistsError
ErrorChain(r) ==
    IF r.err = "AlreadyExists"
    THEN IF r.op = "CreateTeamWithUsers" THEN {"TeamAlreadyExists"} ELSE {"PRAlreadyExists"}
    ELSE {r.err}

\* a variant whose default case answers 200
handleServiceError_DefaultOK(err) ==
    IF "Validation" \in err THEN [status |-> 400, code |-> None]
    ELSE IF "InvalidRequest" \in err THEN [status |-> 400, code |-> None]
    ELSE IF "NotFound" \in err THEN [status |-> 404, code |-> "NOT_FOUND"]
    ELSE IF "TeamAlreadyExists" \in err THEN [status |-> 409, code |-> "TEAM_EXISTS"]
    ELSE IF "PRAlreadyExists" \in err THEN [status |-> 409, code |-> "PR_EXISTS"]
    ELSE IF "PRMerged" \in err THEN [status |-> 409, code |-> "PR_MERGED"]
    ELSE IF "ReviewerNotAssigned" \in err THEN [status |-> 409, code |-> "NOT_ASSIGNED"]
    ELSE IF "NoCandidate" \in err THEN [status |-> 409, code |-> "NO_CANDIDATE"]
    ELSE [status |-> 200, code |-> None]

\* handleServiceError: the first case of the switch that matches the chain
\* decides the status and the api error code (respondError sends no code)
handleServiceError(err) ==
    IF "Validation" \in err THEN [status |-> 400, code |-> None]
    ELSE IF "InvalidRequest" \in err THEN [status |-> 400, code |-> None]
    ELSE IF "NotFound" \in err THEN [status |-> 404, code |-> "NOT_FOUND"]
    ELSE IF "TeamAlreadyExists" \in err THEN [status |-> 409, code |-> "TEAM_EXISTS"]
    ELSE IF "PRAlreadyExists" \in err THEN [status |-> 409, code |-> "PR_EXISTS"]
    ELSE IF "PRMerged" \in err THEN [status |-> 409, code |-> "PR_MERGED"]
    ELSE IF "ReviewerNotAssigned" \in err THEN [status |-> 409, code |-> "NOT_ASSIGNED"]
    ELSE IF "NoCandidate" \in err THEN [status |-> 409, code |-> "NO_CANDIDATE"]
    ELSE [status |-> 500, code |-> None]

\* ------------------------------------------------------------------ failures
\* a database call of the handler returns an error other than the ones above
\* (the connection fails, ctx is cancelled): outside a transaction the
\* handler returns it, inside fn returns it and the deferred tx.Rollback() runs
\* a cancellation that reports the error while the commit goes through
StatementFails_Commits(w) ==
    /\ proc[w].pc \notin {"idle", "done"}
    /\ Commit(w, proc[w], Failed(proc[w], "Internal"))

StatementFails(w) ==
    /\ proc[w].pc \notin {"idle", "done"}
    /\ Rollback(w, proc[w], "Internal")

\* ------------------------------------------------------------------ system
\* the handler returned and the worker takes the next request
Return(w) ==
    /\ proc[w].pc = "done"
    /\ proc' = [proc EXCEPT ![w] = Idle]
    /\ UNCHANGED <<dbvars, prLock, userLock, clock, nops>>

\* the member lists of the CreateTeamWithUsers requests: member id -> is_active
MemberLists ==
    {<<>>, [u \in Users |-> TRUE], [u \in {"u1", "u2", "u3"} |-> TRUE],
     [u \in Users |-> u # "u4"], [u \in {"u2", "u4"} |-> TRUE]}

\* the requests issued while two handlers run concurrently
ConcPRIDs == {"p1"}

ConcAuthors == {"u1"}

ConcMemberLists == {[u \in Users |-> TRUE], [u \in Users |-> u # "u4"]}

\* one step of worker w: a request out of the given ids and member lists
\* is accepted, or the handler w runs executes its next database call
Step(w, prIDs, authors, memberLists) ==
    \/ \E p \in prIDs, a \in authors : CreatePR(w, p, a)
    \/ CreatePR_GetRandomActiveReviewers(w)
    \/ CreatePR_Insert(w)
    \/ CreatePR_Commit(w)
    \/ \E p \in prIDs : MergePR(w, p)
    \/ MergePR_GetPRByIDWithLock(w)
    \/ MergePR_Commit(w)
    \/ \E p \in prIDs, u \in Users : ReassignReviewer(w, p, u)
    \/ Reassign_GetReviewerTeamID(w)
    \/ Reassign_ReplaceReviewer(w)
    \/ Reassign_Commit(w)
    \/ \E t \in TeamNames : DeactivateTeam(w, t)
    \/ Deactivate_LockPR(w)
    \/ Deactivate_ReassignSlot(w)
    \/ Deactivate_Commit(w)
    \/ \E u \in Users, f \in BOOLEAN : SetIsActive(w, u, f)
    \/ \E t \in TeamNames, m \in memberLists : CreateTeamWithUsers(w, t, m)
    \/ StatementFails(w)
    \/ Return(w)

\* requests are handled concurrently
Next == \E w \in Workers : Step(w, ConcPRIDs, ConcAuthors, ConcMemberLists)

Spec == Init /\ [][Next]_vars

\* one request at a time
NextSerial == Step("w1", PRIDs, Users, MemberLists)

SpecSerial == Init /\ [][NextSerial]_vars

\* ------------------------------------------------------------------ row locks
\* two teams of two active users and two OPEN pull requests of author u1,
\* each reviewed by a member of either team (the state after
\* CreateTeamWithUsers(t1, all four), CreatePR(p1, u1), CreatePR(p2, u1) and
\* CreateTeamWithUsers(t2, {u2, u4}))
InitLocks ==
    /\ teams = TeamNames
    /\ users = [u \in Users |-> [team |-> IF u \in {"u2", "u4"} THEN "t2" ELSE "t1",
                                  active |-> TRUE]]
    /\ prs = [p \in PRIDs |-> [status |-> "OPEN", author |-> "u1", need |-> FALSE,
                                mergedAt |-> 0]]
    /\ reviewers = [p \in PRIDs |-> [u \in Users |-> IF u \in {"u2", "u3"} THEN 1 ELSE 0]]
    /\ prLock = [p \in PRIDs |-> None]
    /\ userLock = [u \in Users |-> None]
    /\ proc = [w \in Workers |-> Idle]
    /\ clock = 0
    /\ nops = 0

\* the FOR UPDATE statement of GetOpenPRsByReviewers in w's transaction waits
\* for a row lock another transaction holds
WaitsForRowLock(w) ==
    /\ proc[w].pc = "dt_lock"
    /\ \A p \in proc[w].prIDs \ proc[w].locked : prLock[p] \notin {None, w}

\* w's FOR UPDATE statement waits for a transaction that waits for w: the
\* database ends the circular wait by failing the statement of one of them
\* (deadlock detected), tx.SelectContext returns the error and the deferred
\* tx.Rollback() runs
DeadlockDetected(w) ==
    /\ WaitsForRowLock(w)
    /\ \E v \in Workers \ {w} :
          /\ WaitsForRowLock(v)
          /\ \E p \in proc[w].prIDs : prLock[p] = v
          /\ \E p \in proc[v].prIDs : prLock[p] = w
    /\ Rollback(w, proc[w], "Internal")

\* the next database call of the handler w runs
Continue(w) ==
    \/ MergePR_GetPRByIDWithLock(w)
    \/ MergePR_Commit(w)
    \/ Reassign_GetReviewerTeamID(w)
    \/ Reassign_ReplaceReviewer(w)
    \/ Reassign_Commit(w)
    \/ Deactivate_LockPR(w)
    \/ Deactivate_ReassignSlot(w)
    \/ Deactivate_Commit(w)

\* the pull request merged and reassigned, and the reviewer replaced and
\* deactivated, next to the two cascades
LockPRIDs == {"p1"}

LockUsers == {"u2"}

\* concurrent MergePR, ReassignReviewer, SetIsActive and DeactivateTeam
StepLocks(w) ==
    \/ \E p \in LockPRIDs : MergePR(w, p)
    \/ \E p \in LockPRIDs, u \in LockUsers : ReassignReviewer(w, p, u)
    \/ \E t \in TeamNames : DeactivateTeam(w, t)
    \/ \E u \in LockUsers : SetIsActive(w, u, FALSE)
    \/ Continue(w)
    \/ DeadlockDetected(w)
    \/ StatementFails(w)
    \/ Return(w)

NextLocks == \E w \in Workers : StepLocks(w)

\* a database call that can run does run, and a circular wait is detected
SpecLocks ==
    /\ InitLocks
    /\ [][NextLocks]_vars
    /\ \A w \in Workers : WF_vars(Continue(w))
    /\ WF_vars(\E w \in Workers : DeadlockDetected(w))

\* ------------------------------------------------------------------ selection alone
\* every users table over the two teams
InitSelect ==
    /\ teams = TeamNames
    /\ users \in [Users -> {NoUser} \cup [team : TeamNames, active : BOOLEAN]]
    /\ prs = [p \in PRIDs |-> NoPR]
    /\ reviewers = [p \in PRIDs |-> NoRows]
    /\ prLock = [p \in PRIDs |-> None]
    /\ userLock = [u \in Users |-> None]
    /\ proc = [w \in Workers |-> Idle]
    /\ clock = 0
    /\ nops = 0

\* one call r.GetRandomActiveReviewers(ctx, teamID, excludeUserIDs, count):
\* a SELECT on r.db and the shuffle; the record keeps the arguments (teamID,
\* excludeUserIDs in cur, count in i) and the list returned (ids)
SelectReviewers(w, teamID, excludeUserIDs, count) ==
    /\ proc[w].pc = "idle"
    /\ \E result \in GetRandomActiveReviewers(teamID, excludeUserIDs, count) :
          Local(w, [Idle EXCEPT !.pc = "done", !.op = "GetRandomActiveReviewers",
                                !.teamID = teamID,
                                !.cur = CHOOSE s \in SetOrders(excludeUserIDs) : TRUE,
                                !.i = count, !.ids = result])

NextSelect ==
    \/ \E t \in TeamNames, exclude \in SUBSET Users, count \in 0..MaxCount :
          SelectReviewers("w1", t, exclude, count)
    \/ Return("w1")

SpecSelect == InitSelect /\ [][NextSelect]_vars

\* ------------------------------------------------------------------ properties
\* the handlers that hold the FOR UPDATE lock of pull request p
InReassign(w, p) ==
    proc[w].pc \in {"ra_team", "ra_pick", "ra_commit"} /\ proc[w].pr = p

InMerge(w, p) == proc[w].pc = "mg_commit" /\ proc[w].pr = p

Min2(k) == IF k < 2 THEN k ELSE 2

\* C1: once a pull request is MERGED its status stays MERGED and its
\* reviewer set never changes again, whatever the handlers interleave
C1_MergedPRIsFrozen ==
    [][\A p \in PRIDs :
          prs[p].status = "MERGED" =>
              /\ prs'[p].status = "MERGED"
              /\ RowUsers(reviewers'[p]) = RowUsers(reviewers[p])]_vars

\* C2: ReassignReviewer on a MERGED pull request fails with PRMerged for
\* every oldReviewerID and leaves the reviewer rows of the pull request alone
C2_ReassignOnMergedFails ==
    [][\A w \in Workers, p \in PRIDs, u \in Users :
          (ReassignReviewer(w, p, u) /\ prs[p].status = "MERGED") =>
              /\ proc'[w].pc = "done"
              /\ proc'[w].err = "PRMerged"
              /\ ~proc'[w].committed
              /\ reviewers' = reviewers
              /\ prs' = prs]_vars

\* C2, its case: a ReassignReviewer call has returned PRMerged
C2_Witness ==
    \E w \in Workers :
        /\ proc[w].pc = "done"
        /\ proc[w].op = "ReassignReviewer"
        /\ proc[w].err = "PRMerged"
        /\ prs[proc[w].pr].status = "MERGED"

\* C3: when ReassignReviewer(pr, old) commits, the reviewer set becomes the
\* previous set minus old plus the returned new reviewer; the new reviewer is
\* neither the author nor a reviewer assigned before the call
C3_ReassignPostcondition ==
    [][\A w \in Workers :
          Reassign_Commit(w) =>
              LET r == proc[w]
                  before == RowUsers(reviewers[r.pr])
                  after == RowUsers(reviewers'[r.pr])
              IN  /\ r.user \in before
                  /\ after = (before \ {r.user}) \cup {r.newRev}
                  /\ r.user \notin after
                  /\ r.newRev \in after
                  /\ r.newRev # prs[r.pr].author
                  /\ r.newRev \notin before
                  /\ proc'[w].newRev = r.newRev
                  /\ SeqSet(proc'[w].ids) = after]_vars

\* C3, its case: a ReassignReviewer call has committed a replacement
C3_Witness ==
    \E w \in Workers :
        /\ proc[w].pc = "done"
        /\ proc[w].op = "ReassignReviewer"
        /\ proc[w].committed
        /\ proc[w].newRev \in RowUsers(reviewers[proc[w].pr])

\* C4: MergePR on an already MERGED pull request succeeds, writes nothing
\* (status, merged_at and reviewers stay) and returns the committed state,
\* which is the state the first call returned
C4_MergeIdempotent ==
    [][\A w \in Workers :
          MergePR_Commit(w) =>
              LET r == proc[w]
                  resp == proc'[w]
              IN  /\ resp.committed
                  /\ resp.row.status = "MERGED"
                  /\ prs'[r.pr].status = "MERGED"
                  /\ resp.row.mergedAt = prs'[r.pr].mergedAt
                  /\ resp.row.author = prs'[r.pr].author
                  /\ SeqSet(resp.ids) = RowUsers(reviewers'[r.pr])
                  /\ prs[r.pr].status = "MERGED" =>
                         /\ prs' = prs
                         /\ reviewers' = reviewers
                         /\ resp.row.mergedAt # r.mergedAt]_vars

\* C4, its case: a second MergePR call returned the stamp of the first
C4_Witness ==
    /\ proc["w1"].pc = "done"
    /\ proc["w1"].op = "MergePR"
    /\ proc["w1"].committed
    /\ proc["w1"].row.mergedAt = 1
    /\ clock = 2

\* C5: two ReassignReviewer calls on one pull request never run inside the
\* lock together; the one that gets the lock second reads the committed
\* reviewer rows, fails with ReviewerNotAssigned when its old reviewer is no
\* longer among them, and a replacement that commits replaces a reviewer that
\* is still assigned, so the number of reviewer rows stays
C5_OneReplacementPerReviewer ==
    /\ [](\A p \in PRIDs :
             /\ Cardinality({w \in Workers : InReassign(w, p)}) <= 1
             /\ \A w \in Workers : InReassign(w, p) => prLock[p] = w)
    /\ [][/\ \A w \in Workers :
               Reassign_Commit(w) =>
                   /\ proc[w].user \in RowUsers(reviewers[proc[w].pr])
                   /\ RowCount(reviewers'[proc[w].pr]) = RowCount(reviewers[proc[w].pr])
          /\ \A w \in Workers, p \in PRIDs, u \in Users :
               (/\ ReassignReviewer(w, p, u)
                /\ prs[p].status = "OPEN"
                /\ u \notin RowUsers(reviewers[p])) =>
                   /\ proc'[w].err = "ReviewerNotAssigned"
                   /\ reviewers' = reviewers]_vars

\* C5, its case: while the response of a committed replacement of reviewer u
\* on pull request p is still being returned, a second call for the same p
\* and u has returned ReviewerNotAssigned
C5_Witness ==
    /\ proc["w1"].pc = "done"
    /\ proc["w1"].op = "ReassignReviewer"
    /\ proc["w1"].committed
    /\ proc["w2"].pc = "done"
    /\ proc["w2"].op = "ReassignReviewer"
    /\ proc["w2"].err = "ReviewerNotAssigned"
    /\ proc["w2"].pr = proc["w1"].pr
    /\ proc["w2"].user = proc["w1"].user

\* C6: per pull request at most one MergePR or ReassignReviewer transaction
\* is between taking the FOR UPDATE lock and its commit or rollback, and what
\* it read under the lock is still the committed state when it commits (the
\* pair behaves as one of its two serial orders)
C6_MergeReassignExclusive ==
    /\ [](\A p \in PRIDs :
             /\ Cardinality({w \in Workers : InReassign(w, p) \/ InMerge(w, p)}) <= 1
             /\ \A w \in Workers : (InReassign(w, p) \/ InMerge(w, p)) => prLock[p] = w)
    /\ [][\A w \in Workers :
             /\ MergePR_Commit(w) => proc[w].row = prs[proc[w].pr]
             /\ Reassign_Commit(w) =>
                   /\ proc[w].row = prs[proc[w].pr]
                   /\ prs[proc[w].pr].status = "OPEN"
                   /\ prs'[proc[w].pr].status = "OPEN"
                   /\ SeqSet(proc[w].cur) = RowUsers(reviewers[proc[w].pr])]_vars

\* C6, its case: a MergePR waits for the lock a ReassignReviewer holds on
\* the same pull request
C6_Witness ==
    \E w, v \in Workers :
        /\ InReassign(w, proc[w].pr)
        /\ proc[v].pc = "mg_lock"
        /\ proc[v].pr = proc[w].pr
        /\ prLock[proc[w].pr] = w

\* C7: no pull request has its author among its reviewers
C7_AuthorIsNoReviewer ==
    \A p \in PRIDs : prs[p].status # "ABSENT" => reviewers[p][prs[p].author] = 0

\* C7, its case: a pull request whose author's team has an active member
\* outside author and reviewers went through a replacement
C7_Witness ==
    \E p \in PRIDs :
        /\ proc["w1"].pc = "done"
        /\ proc["w1"].committed
        /\ \/ proc["w1"].op = "ReassignReviewer" /\ proc["w1"].pr = p
           \/ proc["w1"].op = "DeactivateTeam" /\ proc["w1"].touched > 0
        /\ RowCount(reviewers[p]) = 2
        /\ prs[p].author # None

\* C8: the reviewer rows of a pull request name no user twice
C8_NoDuplicateReviewer ==
    \A p \in PRIDs, u \in Users : reviewers[p][u] <= 1

\* C8, its case: the cascade replaced both reviewers of a pull request
C8_Witness ==
    \E w \in Workers, p \in PRIDs :
        /\ proc[w].pc = "dt_commit"
        /\ Len(proc[w].pendRev) = 4
        /\ RowCount(TxRows(proc[w], p)) = 2

\* C9: a pull request has at most 2 reviewers, and a commit of
\* ReassignReviewer or of the cascade keeps the number of reviewer rows of
\* every pull request
C9_AtMostTwoReviewers ==
    /\ [](\A p \in PRIDs : RowCount(reviewers[p]) <= 2)
    /\ [][\A w \in Workers :
             (Reassign_Commit(w) \/ Deactivate_Commit(w)) =>
                 \A p \in PRIDs : RowCount(reviewers'[p]) = RowCount(reviewers[p])]_vars

\* C9, its case: a pull request with 2 reviewers one of whom a replacement
\* put there
C9_Witness ==
    \E w \in Workers :
        /\ proc[w].pc = "done"
        /\ proc[w].op = "ReassignReviewer"
        /\ proc[w].committed
        /\ RowCount(reviewers[proc[w].pr]) = 2
        /\ reviewers[proc[w].pr][proc[w].newRev] = 1

\* C10: a CreatePR that commits creates an OPEN pull request of the author
\* whose reviewers are min(2, k) distinct users, k the number of active
\* members of the author's team other than the author; each of them is such
\* a member; need_more_reviewers is (number of reviewers < 2)
C10_CreatePRAssignsReviewers ==
    [][\A w \in Workers :
          CreatePR_Commit(w) =>
              LET r == proc[w]
                  members == {u \in Users : /\ users[u].team = users[r.user].team
                                            /\ users[u].active
                                            /\ u # r.user}
                  rows == reviewers'[r.pr]
              IN  /\ prs[r.pr].status = "ABSENT"
                  /\ prs'[r.pr].status = "OPEN"
                  /\ prs'[r.pr].author = r.user
                  /\ RowCount(rows) = Min2(Cardinality(members))
                  /\ \A u \in Users : rows[u] <= 1
                  /\ RowUsers(rows) \subseteq members
                  /\ prs'[r.pr].need = (RowCount(rows) < 2)
                  /\ proc'[w].committed
                  /\ SeqSet(proc'[w].ids) = RowUsers(rows)]_vars

\* C10, its case: a CreatePR has committed a pull request without reviewers
C10_Witness ==
    /\ proc["w1"].pc = "done"
    /\ proc["w1"].op = "CreatePR"
    /\ proc["w1"].committed
    /\ proc["w1"].ids = <<>>
    /\ prs[proc["w1"].pr].status = "OPEN"

\* C11: need_more_reviewers is (fewer than 2 reviewers assigned) when
\* CreatePR commits, no step changes it while the pull request stays OPEN (in
\* particular not ReassignReviewer and not the cascade), and it is false on
\* every MERGED pull request
C11_NeedMoreReviewers ==
    /\ [](\A p \in PRIDs : prs[p].status = "MERGED" => ~prs[p].need)
    /\ [][/\ \A w \in Workers :
               CreatePR_Commit(w) =>
                   prs'[proc[w].pr].need = (RowCount(reviewers'[proc[w].pr]) < 2)
          /\ \A w \in Workers :
               (Reassign_Commit(w) \/ Deactivate_Commit(w)) =>
                   \A p \in PRIDs : prs'[p].need = prs[p].need
          /\ \A p \in PRIDs :
               (prs[p].status = "OPEN" /\ prs'[p].status = "OPEN") =>
                   prs'[p].need = prs[p].need]_vars

\* C11, its case: a pull request created with fewer than 2 reviewers has
\* been merged
C11_Witness ==
    \E p \in PRIDs :
        /\ prs[p].status = "MERGED"
        /\ RowCount(reviewers[p]) < 2
        /\ ~prs[p].need

\* C12: the row of a pull request and its initial reviewer rows become
\* visible in one step, the commit of its CreatePR, or never: no reviewer
\* row exists for an absent pull request, and a CreatePR that returns an
\* error leaves pull_requests and reviewers as they were
C12_CreatePRAtomic ==
    /\ [](\A p \in PRIDs : prs[p].status = "ABSENT" => RowCount(reviewers[p]) = 0)
    /\ [][/\ \A p \in PRIDs :
               (prs[p].status = "ABSENT" /\ prs'[p].status # "ABSENT") =>
                   \E w \in Workers :
                       /\ CreatePR_Commit(w)
                       /\ proc[w].pr = p
                       /\ prs'[p] = proc[w].row
                       /\ reviewers'[p] = ToRows(proc[w].ids)
          /\ \A w \in Workers :
               (/\ proc[w].pc # "done"
                /\ proc'[w].pc = "done"
                /\ proc'[w].op = "CreatePR"
                /\ proc'[w].err # None) =>
                   /\ prs' = prs
                   /\ reviewers' = reviewers]_vars

\* C12, its case: while a CreatePR holds the inserted row and 2 reviewer
\* rows uncommitted, a MergePR of the same id has returned NotFound
C12_Witness ==
    \E w, v \in Workers :
        /\ proc[w].pc = "cp_commit"
        /\ Len(proc[w].pendRev) = 2
        /\ proc[v].pc = "done"
        /\ proc[v].op = "MergePR"
        /\ proc[v].err = "NotFound"
        /\ proc[v].pr = proc[w].pr

\* C13: every reviewer row CreatePR or ReassignReviewer inserts belongs to
\* a user who is active in the committed state at the moment the inserting
\* transaction commits, whatever SetIsActive, CreateTeamWithUsers or
\* DeactivateTeam do concurrently
C13_InsertedReviewerIsActive ==
    [][\A w \in Workers :
          /\ CreatePR_Commit(w) => \A u \in SeqSet(proc[w].ids) : users[u].active
          /\ Reassign_Commit(w) => users[proc[w].newRev].active]_vars

\* the users the pending writes of r insert as reviewers of pull request p
InsertedReviewers(r, p) ==
    {r.pendRev[i][3] : i \in {j \in 1..Len(r.pendRev) :
                                 r.pendRev[j][1] = p /\ r.pendRev[j][2] = "ins"}}

\* C14: once DeactivateTeam has committed, every reviewer row its cascade
\* inserted belongs to an active user, in particular not to a user the same
\* call deactivated
C14_CascadeInsertsActiveReviewers ==
    [][\A w \in Workers :
          Deactivate_Commit(w) =>
              \A p \in PRIDs : \A u \in InsertedReviewers(proc[w], p) :
                  /\ users'[u].active
                  /\ u \notin proc[w].deact]_vars

\* the reviewers of pull request p the pending writes of r delete
DeletedReviewers(r, p) ==
    {r.pendRev[i][3] : i \in {j \in 1..Len(r.pendRev) :
                                 r.pendRev[j][1] = p /\ r.pendRev[j][2] = "del"}}

\* C15: a deactivated reviewer of an affected pull request for whom the
\* cascade found no replacement is removed: after DeactivateTeam the user is
\* no reviewer of that pull request, which has fewer reviewers than before
C15_NoCandidateLeavesSlotVacant ==
    [][\A w \in Workers :
          Deactivate_Commit(w) =>
              \A p \in proc[w].prIDs : \A u \in proc[w].deact :
                  (reviewers[p][u] > 0 /\ u \notin DeletedReviewers(proc[w], p)) =>
                      /\ reviewers'[p][u] = 0
                      /\ RowCount(reviewers'[p]) < RowCount(reviewers[p])]_vars

\* C16: a deactivated reviewer without replacement candidate does not fail
\* DeactivateTeam: the cascade goes on with what it has written so far, and
\* the commit returns no error and publishes the deactivations and every
\* replacement made
C16_NoCandidateIsTolerated ==
    [][\A w \in Workers :
          /\ Deactivate_ReassignSlot(w) =>
                /\ proc'[w].pc \in {"dt_slot", "dt_commit"}
                /\ proc'[w].deact = proc[w].deact
                /\ Len(proc'[w].pendRev) >= Len(proc[w].pendRev)
                /\ SubSeq(proc'[w].pendRev, 1, Len(proc[w].pendRev)) = proc[w].pendRev
          /\ Deactivate_Commit(w) =>
                /\ proc'[w].pc = "done"
                /\ proc'[w].committed
                /\ proc'[w].err = None
                /\ \A u \in proc[w].deact : ~users'[u].active
                /\ \A p \in PRIDs :
                      reviewers'[p] = ApplyWrites(reviewers[p], p, proc[w].pendRev)]_vars

\* C16, its case: a cascade about to commit that replaced a reviewer of one
\* pull request and found no candidate for a deactivated reviewer of another
C16_Witness ==
    \E w \in Workers :
        /\ proc[w].pc = "dt_commit"
        /\ proc[w].pendRev # <<>>
        /\ \E p \in proc[w].prIDs, u \in proc[w].deact :
              /\ proc[w].snap[p][u] > 0
              /\ u \notin DeletedReviewers(proc[w], p)

\* C17: DeactivateTeam returns as reassignedCount the number of OPEN pull
\* requests that have one of the users it deactivated among their reviewers,
\* whatever the number of reviewer rows the cascade replaced
C17_ReassignedCountIsPRsTouched ==
    [][\A w \in Workers :
          Deactivate_Commit(w) =>
              proc'[w].touched =
                  Cardinality({p \in PRIDs :
                                  /\ prs[p].status = "OPEN"
                                  /\ \E u \in proc[w].deact : reviewers[p][u] > 0})]_vars

\* C17, its case: a DeactivateTeam returned reassignedCount 2 for two pull
\* requests with 4 reviewer rows of deactivated users between them
C17_Witness ==
    /\ proc["w1"].pc = "done"
    /\ proc["w1"].op = "DeactivateTeam"
    /\ proc["w1"].committed
    /\ proc["w1"].touched = 2
    /\ proc["w1"].ndeact = 4
    /\ \A p \in PRIDs : RowCount(reviewers[p]) = 2

\* C18: every pull request the cascade of a running DeactivateTeam has
\* locked, and so reads or replaces the reviewers of, is OPEN and stays OPEN
\* until that transaction commits or rolls back
C18_CascadePRsAreOpen ==
    \A w \in Workers :
        proc[w].pc \in {"dt_lock", "dt_slot", "dt_commit"} =>
            \A p \in proc[w].locked : prs[p].status = "OPEN"

\* C19: a DeactivateTeam that commits turns inactive exactly the users of
\* the team that were active, returns their number as deactivatedCount and
\* changes no other user; afterwards no member of the team is active
C19_DeactivateTeamUsers ==
    [][\A w \in Workers :
          Deactivate_Commit(w) =>
              LET wereActive == {u \in Users : /\ users[u].team = proc[w].team
                                               /\ users[u].active}
              IN  /\ proc[w].deact = wereActive
                  /\ proc'[w].ndeact = Cardinality(wereActive)
                  /\ \A u \in Users :
                        users'[u] = IF u \in wereActive
                                    THEN [users[u] EXCEPT !.active = FALSE]
                                    ELSE users[u]
                  /\ \A u \in Users : users'[u].team = proc[w].team => ~users'[u].active]_vars

\* C19, its case: a DeactivateTeam returned deactivatedCount 2 or more while
\* a user of another team stays active
C19_Witness ==
    /\ proc["w1"].pc = "done"
    /\ proc["w1"].op = "DeactivateTeam"
    /\ proc["w1"].committed
    /\ proc["w1"].ndeact >= 2
    /\ \E u \in Users : users[u].active /\ users[u].team # proc["w1"].team

\* C20: when a step of DeactivateTeam fails (the team is not found, or the bulk
\* deactivation, the PR lookup, the candidate query, a reviewer replacement
\* or the commit returns an error) the transaction is rolled back: the step
\* in which the call returns the error leaves every committed row as it was,
\* every user the call had deactivated is still active, the locks of the
\* call are released, and the counts returned with the error are (0, 0)
C20_DeactivateTeamFailureRollsBack ==
    [][\A w \in Workers :
          (/\ proc[w].pc # "done"
           /\ proc'[w].pc = "done"
           /\ proc'[w].op = "DeactivateTeam"
           /\ proc'[w].err # None)
          => /\ dbvars' = dbvars
             /\ \A u \in proc[w].deact : users'[u].active
             /\ \A p \in PRIDs : prLock'[p] # w
             /\ \A u \in Users : userLock'[u] # w
             /\ ~proc'[w].committed
             /\ proc'[w].ndeact = 0
             /\ proc'[w].touched = 0]_vars

\* a DeactivateTeam call failed on a database error although its team has
\* two active members who both review an OPEN pull request: the call had
\* deactivated them and had reviewers to replace, and they are active still
C20_Witness ==
    /\ proc["w1"].pc = "done"
    /\ proc["w1"].op = "DeactivateTeam"
    /\ proc["w1"].err = "Internal"
    /\ proc["w1"].ndeact = 0
    /\ \E p \in PRIDs :
          /\ prs[p].status = "OPEN"
          /\ RowCount(reviewers[p]) = 2
          /\ \A u \in Users : reviewers[p][u] > 0 =>
                /\ users[u].team = proc["w1"].team
                /\ users[u].active

\* C21: DeactivateTeam on a team without an active user goes straight to the
\* commit (no user row and no pull request is locked), returns the counts
\* (0, 0) without error and changes no user and no pull request; this is
\* the case of a second DeactivateTeam right after a successful one
C21_DeactivateInactiveTeamIsNoOp ==
    [][\A w \in Workers :
          /\ \A t \in TeamNames :
                (/\ DeactivateTeam(w, t)
                 /\ t \in teams
                 /\ \A u \in Users : users[u].team = t => ~users[u].active)
                => /\ proc'[w].pc = "dt_commit"
                   /\ proc'[w].deact = {}
                   /\ proc'[w].prIDs = {}
                   /\ userLock' = userLock
                   /\ prLock' = prLock
                   /\ dbvars' = dbvars
          /\ (/\ Deactivate_Commit(w)
              /\ \A u \in Users : users[u].team = proc[w].team => ~users[u].active)
             => /\ proc'[w].pc = "done"
                /\ proc'[w].err = None
                /\ proc'[w].committed
                /\ proc'[w].ndeact = 0
                /\ proc'[w].touched = 0
                /\ dbvars' = dbvars]_vars

\* C21, its case: a DeactivateTeam call returned (0, 0) for a team whose
\* members were deactivated by an earlier call that left one of them as a
\* reviewer of a pull request
C21_Witness ==
    /\ proc["w1"].pc = "done"
    /\ proc["w1"].op = "DeactivateTeam"
    /\ proc["w1"].committed
    /\ proc["w1"].ndeact = 0
    /\ proc["w1"].touched = 0
    /\ Cardinality({u \in Users : users[u].team = proc["w1"].team}) >= 3
    /\ \A u \in Users : users[u].team = proc["w1"].team => ~users[u].active
    /\ \E p \in PRIDs, u \in Users :
          /\ reviewers[p][u] > 0
          /\ users[u].team = proc["w1"].team

\* C22: for every users table, team, exclusion set and count, the list
\* GetRandomActiveReviewers returns has exactly min(count, |pool|) ids, no id
\* twice, and only ids of the pool (the active users of the team outside the
\* exclusion set); it is the whole pool when the pool is not larger than
\* count and the empty list, not an error, when the pool is empty; the call
\* changes no row and takes no lock
C22_GetRandomActiveReviewers ==
    [][\A w \in Workers :
          (proc[w].pc = "idle" /\ proc'[w].op = "GetRandomActiveReviewers") =>
              LET t == proc'[w].teamID
                  exclude == SeqSet(proc'[w].cur)
                  count == proc'[w].i
                  pool == {u \in Users : /\ users[u].team = t
                                          /\ users[u].active
                                          /\ u \notin exclude}
                  k == IF count < Cardinality(pool) THEN count ELSE Cardinality(pool)
                  res == proc'[w].ids
              IN  /\ proc'[w].err = None
                  /\ Len(res) = k
                  /\ Cardinality(SeqSet(res)) = Len(res)
                  /\ SeqSet(res) \subseteq pool
                  /\ Cardinality(pool) <= count => SeqSet(res) = pool
                  /\ pool = {} => res = <<>>
                  /\ dbvars' = dbvars
                  /\ prLock' = prLock
                  /\ userLock' = userLock]_vars

\* C22, its case: a call with a non-empty exclusion list returned two ids
\* out of a pool of three
C22_Witness ==
    /\ proc["w1"].pc = "done"
    /\ proc["w1"].op = "GetRandomActiveReviewers"
    /\ proc["w1"].i = 2
    /\ Len(proc["w1"].ids) = 2
    /\ proc["w1"].cur # <<>>
    /\ Cardinality({u \in Users : /\ users[u].team = proc["w1"].teamID
                                   /\ users[u].active
                                   /\ u \notin SeqSet(proc["w1"].cur)}) = 3

\* C23: a unit of work run through transaction() ends in exactly one of
\* commit and rollback.  The step in which a handler returns either reports
\* no error and has committed, and then the committed rows are the rows
\* before plus exactly the pending writes of the transaction (the deferred
\* rollback takes nothing back), or it reports the error and has not
\* committed, and then no row has changed; in both cases the transaction
\* holds no row lock afterwards
C23_CommitXorRollback ==
    [][\A w \in Workers :
          (proc[w].pc # "done" /\ proc'[w].pc = "done") =>
              LET r == proc[w] IN
              /\ proc'[w].committed <=> proc'[w].err = None
              /\ proc'[w].err # None => dbvars' = dbvars
              /\ (proc'[w].committed /\ r.pc # "idle") =>
                    /\ prs' = IF r.pendPR # NoPR THEN [prs EXCEPT ![r.pr] = r.pendPR] ELSE prs
                    /\ reviewers' = [p \in PRIDs |-> TxRows(r, p)]
                    /\ \A u \in Users :
                          users'[u] = IF u \in r.deact
                                      THEN [users[u] EXCEPT !.active = FALSE]
                                      ELSE users[u]
                    /\ teams' = teams
              /\ \A p \in PRIDs : prLock'[p] # w
              /\ \A u \in Users : userLock'[u] # w]_vars

\* C23, its case: one transaction has committed the pull request it
\* created with its reviewers, another one was rolled back on an error
C23_Witness ==
    \E w, v \in Workers :
        /\ proc[w].pc = "done"
        /\ proc[w].op = "CreatePR"
        /\ proc[w].committed
        /\ prs[proc[w].pr].status = "OPEN"
        /\ RowCount(reviewers[proc[w].pr]) = 2
        /\ proc[v].pc = "done"
        /\ proc[v].op \in {"MergePR", "ReassignReviewer", "DeactivateTeam", "CreatePR"}
        /\ proc[v].err # None
        /\ ~proc[v].committed

C25_CancelRollsBack ==
    [][\A w \in Workers :
          (/\ proc[w].pc \notin {"idle", "done"}
           /\ proc'[w].pc = "done"
           /\ proc'[w].err = "Internal")
          => LET r == proc[w] IN
             /\ ~proc'[w].committed
             /\ dbvars' = dbvars
             /\ r.pendPR # NoPR => prs'[r.pr] # r.pendPR
             /\ \A k \in 1..Len(r.pendRev) :
                   r.pendRev[k][2] = "del" => reviewers'[r.pendRev[k][1]][r.pendRev[k][3]] > 0
             /\ \A u \in r.deact : users'[u].active
             /\ \A p \in PRIDs : prLock'[p] # w
             /\ \A u \in Users : userLock'[u] # w]_vars

\* C25, its case: a DeactivateTeam call on a team of four active users, some
\* of them reviewers of the OPEN pull requests, was cancelled; the four
\* users it had deactivated are active and the reviewers are in place
C25_Witness ==
    /\ proc["w1"].pc = "done"
    /\ proc["w1"].op = "DeactivateTeam"
    /\ proc["w1"].err = "Internal"
    /\ ~proc["w1"].committed
    /\ \A u \in Users : users[u].team = proc["w1"].team /\ users[u].active
    /\ \E p \in PRIDs : prs[p].status = "OPEN" /\ RowCount(reviewers[p]) = 2

\* C26: ReassignReviewer on an OPEN pull request fails with
\* ReviewerNotAssigned when oldReviewerID is not a reviewer of the pull
\* request, and with NoCandidate when the team of the old reviewer has no
\* active user outside the author and the current reviewers; in both cases
\* the reviewer rows and the row of the pull request stay as they were
C26_ReassignFailures ==
    [][\A w \in Workers :
          /\ (/\ proc[w].pc = "idle"
              /\ proc'[w].op = "ReassignReviewer"
              /\ prs[proc'[w].pr].status = "OPEN"
              /\ reviewers[proc'[w].pr][proc'[w].user] = 0)
             => /\ proc'[w].pc = "done"
                /\ proc'[w].err = "ReviewerNotAssigned"
                /\ ~proc'[w].committed
                /\ reviewers' = reviewers
                /\ prs' = prs
          /\ (/\ proc[w].pc = "ra_pick"
              /\ proc'[w].pc # "ra_pick"
              /\ proc'[w].err # "Internal"
              /\ prs[proc[w].pr].status = "OPEN"
              /\ {v \in Users : /\ users[v].team = users[proc[w].user].team
                                 /\ users[v].active
                                 /\ v # prs[proc[w].pr].author
                                 /\ reviewers[proc[w].pr][v] = 0} = {})
             => /\ proc'[w].pc = "done"
                /\ proc'[w].err = "NoCandidate"
                /\ ~proc'[w].committed
                /\ reviewers' = reviewers
                /\ prs' = prs]_vars

\* C26, its case: one call has returned NoCandidate for a reviewer who is
\* still assigned to the OPEN pull request, another one ReviewerNotAssigned
\* for a user who is no reviewer of it
C26_Witness ==
    \E w, v \in Workers :
        /\ proc[w].pc = "done"
        /\ proc[w].op = "ReassignReviewer"
        /\ proc[w].err = "NoCandidate"
        /\ prs[proc[w].pr].status = "OPEN"
        /\ reviewers[proc[w].pr][proc[w].user] > 0
        /\ proc[v].pc = "done"
        /\ proc[v].op = "ReassignReviewer"
        /\ proc[v].err = "ReviewerNotAssigned"
        /\ prs[proc[v].pr].status = "OPEN"
        /\ reviewers[proc[v].pr][proc[v].user] = 0

\* C27: the replacement a ReassignReviewer call commits is an active member
\* of the team the replaced reviewer belongs to, whether or not that is the
\* team of the PR author (a user is a member of one team only)
C27_ReplacementFromReviewersTeam ==
    [][\A w \in Workers :
          Reassign_Commit(w) =>
              LET r == proc[w] IN
              /\ users[r.user].team # None
              /\ users[r.newRev].team = users[r.user].team
              /\ users[r.newRev].active
              /\ r.teamID = users[r.user].team
              /\ proc'[w].newRev = r.newRev
              /\ reviewers'[r.pr][r.newRev] > 0]_vars

\* C27, its case: a committed replacement for a reviewer whose team is not
\* the team of the PR author
C27_Witness ==
    /\ proc["w1"].pc = "done"
    /\ proc["w1"].op = "ReassignReviewer"
    /\ proc["w1"].committed
    /\ users[proc["w1"].user].team # users[proc["w1"].row.author].team
    /\ users[proc["w1"].newRev].team = users[proc["w1"].user].team
    /\ reviewers[proc["w1"].pr][proc["w1"].newRev] > 0

\* C28: merged_at is set exactly once per pull request.  It is null (0) while
\* there is no row or the row is OPEN and set while it is MERGED; it changes
\* only in the commit of a MergePR call that read the row OPEN under the
\* lock, to the time that call read at its entry, together with the move
\* from OPEN to MERGED; once set it never changes, also when several MergePR
\* calls on the pull request run concurrently
C28_MergedAtSetOnce ==
    /\ [](\A p \in PRIDs : prs[p].mergedAt # 0 <=> prs[p].status = "MERGED")
    /\ [][\A p \in PRIDs :
              /\ prs[p].mergedAt # 0 => prs'[p].mergedAt = prs[p].mergedAt
              /\ prs'[p].mergedAt # prs[p].mergedAt =>
                    \E w \in Workers :
                        /\ proc[w].pc = "mg_commit"
                        /\ proc[w].pr = p
                        /\ proc'[w].pc = "done"
                        /\ proc'[w].committed
                        /\ proc[w].row.status = "OPEN"
                        /\ prs[p].status = "OPEN"
                        /\ prs'[p].status = "MERGED"
                        /\ prs'[p].mergedAt = proc[w].mergedAt
                        /\ proc'[w].row.mergedAt = proc[w].mergedAt]_vars

\* C28, its case: two overlapping MergePR calls on one pull request have
\* committed; the one that was entered second took the lock first and
\* stamped its time, and the other returned that stamp
C28_Witness ==
    /\ proc["w1"].pc = "done"
    /\ proc["w2"].pc = "done"
    /\ proc["w1"].op = "MergePR"
    /\ proc["w2"].op = "MergePR"
    /\ proc["w1"].committed
    /\ proc["w2"].committed
    /\ proc["w1"].pr = proc["w2"].pr
    /\ prs[proc["w1"].pr].mergedAt = 2
    /\ proc["w1"].row.mergedAt = 2
    /\ proc["w2"].row.mergedAt = 2

\* C29: CreatePR with an author id that has no users row returns NotFound
\* at once: no transaction is begun (no row is locked, nothing is pending)
\* and no pull request row and no reviewer row is created
C29_CreatePRUnknownAuthor ==
    [][\A w \in Workers :
          (/\ proc[w].pc = "idle"
           /\ proc'[w].op = "CreatePR"
           /\ users[proc'[w].user].team = None)
          => /\ proc'[w].pc = "done"
             /\ proc'[w].err = "NotFound"
             /\ ~proc'[w].committed
             /\ proc'[w].pendPR = NoPR
             /\ proc'[w].pendRev = <<>>
             /\ dbvars' = dbvars
             /\ prLock' = prLock
             /\ userLock' = userLock]_vars

\* C29, its case: CreatePR has returned NotFound for an author without a
\* users row while a team with active members exists, and there is no row
\* of the pull request
C29_Witness ==
    /\ proc["w1"].pc = "done"
    /\ proc["w1"].op = "CreatePR"
    /\ proc["w1"].err = "NotFound"
    /\ users[proc["w1"].user].team = None
    /\ prs[proc["w1"].pr].status = "ABSENT"
    /\ RowCount(reviewers[proc["w1"].pr]) = 0
    /\ Cardinality({u \in Users : users[u].team # None /\ users[u].active}) >= 3

\* C30: CreatePR with the id of a pull request that has a committed row
\* fails with AlreadyExists; the existing row (author, status, merged_at,
\* need_more_reviewers) and its reviewer rows stay as they were, and none
\* of the reviewers selected for the failed request gets a row
C30_CreatePRAlreadyExists ==
    [][\A w \in Workers :
          (/\ proc[w].pc = "cp_insert"
           /\ proc'[w].pc # "cp_insert"
           /\ proc'[w].err # "Internal"
           /\ prs[proc[w].pr].status # "ABSENT")
          => LET r == proc[w] IN
             /\ proc'[w].pc = "done"
             /\ proc'[w].err = "AlreadyExists"
             /\ ~proc'[w].committed
             /\ prs'[r.pr] = prs[r.pr]
             /\ reviewers'[r.pr] = reviewers[r.pr]
             /\ \A u \in SeqSet(r.ids) : reviewers'[r.pr][u] = reviewers[r.pr][u]
             /\ dbvars' = dbvars
             /\ prLock'[r.pr] # w]_vars

\* C30, its case: CreatePR has returned AlreadyExists for the id of a MERGED
\* pull request of another author with two reviewers, for an author who
\* has an active teammate to select and who is not a reviewer of it
C30_Witness ==
    /\ proc["w1"].pc = "done"
    /\ proc["w1"].op = "CreatePR"
    /\ proc["w1"].err = "AlreadyExists"
    /\ prs[proc["w1"].pr].status = "MERGED"
    /\ prs[proc["w1"].pr].author # proc["w1"].user
    /\ RowCount(reviewers[proc["w1"].pr]) = 2
    /\ \E u \in Users :
          /\ u # proc["w1"].user
          /\ users[u].team = users[proc["w1"].user].team
          /\ users[u].active
          /\ reviewers[proc["w1"].pr][u] = 0

\* C31: CreateTeamWithUsers with a new name inserts the team and upserts
\* every listed member by id: afterwards each listed id has a users row of
\* the new team with the listed is_active, whether or not it had a row of
\* another team before, and every other users row is as it was; in every
\* reachable state each users row belongs to one team, which exists
C31_CreateTeamUpsertsMembers ==
    /\ [](\A u \in Users : users[u].team # None => users[u].team \in teams)
    /\ [][\A w \in Workers, t \in TeamNames, m \in MemberLists :
              (CreateTeamWithUsers(w, t, m) /\ t \notin teams) =>
                  /\ proc'[w].pc = "done"
                  /\ proc'[w].err = None
                  /\ proc'[w].committed
                  /\ teams' = teams \cup {t}
                  /\ \A u \in Users :
                        users'[u] = IF u \in DOMAIN m
                                    THEN [team |-> t, active |-> m[u]]
                                    ELSE users[u]
                  /\ \A u \in DOMAIN m, old \in teams : users'[u].team # old
                  /\ prs' = prs
                  /\ reviewers' = reviewers]_vars

\* C31, its case: the second team was created with members that had rows
\* of the first team: a reviewer of a pull request is now a member of the
\* new team while the author of the pull request is a member of the old one
C31_Witness ==
    /\ proc["w1"].pc = "done"
    /\ proc["w1"].op = "CreateTeamWithUsers"
    /\ proc["w1"].committed
    /\ teams = TeamNames
    /\ \E p \in PRIDs, u \in Users :
          /\ reviewers[p][u] > 0
          /\ users[u].team = proc["w1"].team
          /\ users[prs[p].author].team \notin {None, proc["w1"].team}

\* C32: CreateTeamWithUsers with a name that is taken fails with
\* AlreadyExists and changes nothing: the teams, every users row (the
\* members of the existing team and the ids listed in the request), the
\* pull requests and the reviewer rows are as before
C32_CreateTeamAlreadyExists ==
    [][\A w \in Workers :
          (/\ proc[w].pc = "idle"
           /\ proc'[w].op = "CreateTeamWithUsers"
           /\ proc'[w].team \in teams)
          => /\ proc'[w].pc = "done"
             /\ proc'[w].err = "AlreadyExists"
             /\ ~proc'[w].committed
             /\ teams' = teams
             /\ users' = users
             /\ prs' = prs
             /\ reviewers' = reviewers
             /\ prLock' = prLock
             /\ userLock' = userLock]_vars

\* C32, its case: a request for an existing team with two or more members
\* has returned AlreadyExists while a user has a row of another team or no
\* row, so every list that names that user would have changed the row
C32_Witness ==
    /\ proc["w1"].pc = "done"
    /\ proc["w1"].op = "CreateTeamWithUsers"
    /\ proc["w1"].err = "AlreadyExists"
    /\ proc["w1"].team \in teams
    /\ Cardinality({u \in Users : users[u].team = proc["w1"].team}) >= 2
    /\ \E u \in Users : users[u].team # proc["w1"].team

\* C33: in every reachable state GetStats has one entry for every users
\* row, with openReviews the number of OPEN pull requests the user is a
\* reviewer of and mergedReviews the number of MERGED ones (0 and 0 without
\* reviews); the step that merges a pull request moves one review from the
\* open to the merged count of each of its reviewers and changes no other
\* entry
C33_GetStats ==
    /\ [](/\ DOMAIN GetUserStats = {u \in Users : users[u].team # None}
          /\ \A u \in DOMAIN GetUserStats :
                /\ GetUserStats[u].openReviews =
                       Cardinality({p \in PRIDs : /\ prs[p].status = "OPEN"
                                                   /\ u \in RowUsers(reviewers[p])})
                /\ GetUserStats[u].mergedReviews =
                       Cardinality({p \in PRIDs : /\ prs[p].status = "MERGED"
                                                   /\ u \in RowUsers(reviewers[p])}))
    /\ [][\A p \in PRIDs :
              (prs[p].status = "OPEN" /\ prs'[p].status = "MERGED") =>
                  \A u \in DOMAIN GetUserStats :
                      IF u \in RowUsers(reviewers[p])
                      THEN /\ GetUserStats'[u].openReviews = GetUserStats[u].openReviews - 1
                           /\ GetUserStats'[u].mergedReviews =
                                  GetUserStats[u].mergedReviews + 1
                      ELSE GetUserStats'[u] = GetUserStats[u]]_vars

\* C33, its case: a user reviews one OPEN and one MERGED pull request, and
\* another user with a row reviews none
C33_Witness ==
    /\ \E u \in DOMAIN GetUserStats :
          /\ GetUserStats[u].openReviews = 1
          /\ GetUserStats[u].mergedReviews = 1
    /\ \E u \in DOMAIN GetUserStats :
          /\ GetUserStats[u].openReviews = 0
          /\ GetUserStats[u].mergedReviews = 0

\* C34: handleServiceError answers every error with a fixed non-success
\* response: NotFound with 404 NOT_FOUND, a duplicate team with 409
\* TEAM_EXISTS, a duplicate pull request with 409 PR_EXISTS, PRMerged with
\* 409 PR_MERGED, ReviewerNotAssigned with 409 NOT_ASSIGNED, NoCandidate with
\* 409 NO_CANDIDATE, a malformed or invalid request with 400 and any other
\* error with 500; the error of every call that has returned one is answered
\* with the status of its kind, never with a 2xx status
C34_HandleServiceError ==
    /\ \A err \in ErrorChains :
          /\ handleServiceError(err).status \in {400, 404, 409, 500}
          /\ ("Validation" \in err \/ "InvalidRequest" \in err)
                 => handleServiceError(err).status = 400
    /\ handleServiceError({"NotFound"}) = [status |-> 404, code |-> "NOT_FOUND"]
    /\ handleServiceError({"TeamAlreadyExists"}) = [status |-> 409, code |-> "TEAM_EXISTS"]
    /\ handleServiceError({"PRAlreadyExists"}) = [status |-> 409, code |-> "PR_EXISTS"]
    /\ handleServiceError({"PRMerged"}) = [status |-> 409, code |-> "PR_MERGED"]
    /\ handleServiceError({"ReviewerNotAssigned"}) = [status |-> 409, code |-> "NOT_ASSIGNED"]
    /\ handleServiceError({"NoCandidate"}) = [status |-> 409, code |-> "NO_CANDIDATE"]
    /\ handleServiceError({"Internal"}).status = 500
    /\ \A w \in Workers :
          (proc[w].pc = "done" /\ proc[w].err # None) =>
              LET resp == handleServiceError(ErrorChain(proc[w])) IN
              /\ ErrorChain(proc[w]) \in ErrorChains
              /\ resp.status \notin 200..299
              /\ resp.status =
                     CASE proc[w].err = "NotFound" -> 404
                       [] proc[w].err \in {"AlreadyExists", "PRMerged", "ReviewerNotAssigned",
                                           "NoCandidate"} -> 409
                       [] OTHER -> 500
              /\ resp.code =
                     CASE proc[w].err = "NotFound" -> "NOT_FOUND"
                       [] proc[w].err = "AlreadyExists" /\ proc[w].op = "CreateTeamWithUsers"
                              -> "TEAM_EXISTS"
                       [] proc[w].err = "AlreadyExists" /\ proc[w].op = "CreatePR" -> "PR_EXISTS"
                       [] proc[w].err = "PRMerged" -> "PR_MERGED"
                       [] proc[w].err = "ReviewerNotAssigned" -> "NOT_ASSIGNED"
                       [] proc[w].err = "NoCandidate" -> "NO_CANDIDATE"
                       [] OTHER -> None

\* C34, its case: one call has returned an error of no known kind, answered
\* with 500, while another has returned a duplicate pull request, answered
\* with 409 PR_EXISTS
C34_Witness ==
    /\ proc["w1"].pc = "done"
    /\ proc["w1"].err = "Internal"
    /\ handleServiceError(ErrorChain(proc["w1"])).status = 500
    /\ proc["w2"].pc = "done"
    /\ proc["w2"].op = "CreatePR"
    /\ proc["w2"].err = "AlreadyExists"
    /\ handleServiceError(ErrorChain(proc["w2"])).code = "PR_EXISTS"

\* C35: a step of the cascade that replaces a deactivated reviewer of a pull
\* request chooses the replacement with an exclusion set that holds the
\* author, the reviewers still assigned and the replacements the same
\* cascade made earlier for that pull request; the replacement is none of
\* them, so the replacements within one pull request are pairwise distinct
\* and the reviewer rows the transaction sees name no user twice
C35_CascadeExcludesEarlierReplacements ==
    [][\A w \in Workers :
          (proc[w].pc = "dt_slot" /\ Len(proc'[w].pendRev) > Len(proc[w].pendRev)) =>
              LET r == proc[w]
                  p == r.curPR
                  new == proc'[w].pendRev[Len(proc'[w].pendRev)][3]
                  exclude == excludeIDs(prs[p].author, r.cur)
              IN  /\ InsertedReviewers(r, p) \subseteq exclude
                  /\ RowUsers(TxRows(r, p)) \subseteq exclude
                  /\ new \notin exclude
                  /\ new \notin InsertedReviewers(r, p)
                  /\ new # prs[p].author
                  /\ new \notin RowUsers(TxRows(r, p))
                  /\ Cardinality(InsertedReviewers(proc'[w], p)) =
                         Cardinality(InsertedReviewers(r, p)) + 1
                  /\ \A u \in Users : TxRows(proc'[w], p)[u] <= 1]_vars

\* C35, its case: the cascade has replaced both reviewers of one pull
\* request, by two different users
C35_Witness ==
    \E w \in Workers, p \in PRIDs :
        /\ proc[w].op = "DeactivateTeam"
        /\ proc[w].pc \in {"dt_slot", "dt_commit"}
        /\ Cardinality(DeletedReviewers(proc[w], p)) = 2
        /\ Cardinality(InsertedReviewers(proc[w], p)) = 2

\* C36: ReassignReviewer reports the first precondition that fails, in the
\* order: the pull request does not exist, NotFound; it is MERGED, PRMerged,
\* also when oldReviewerID is not one of its reviewers; oldReviewerID is not
\* assigned, ReviewerNotAssigned; otherwise the call goes on to look for a
\* candidate, and NoCandidate is returned only from there
C36_ReassignPreconditionOrder ==
    [][\A w \in Workers :
          /\ (proc[w].pc = "idle" /\ proc'[w].op = "ReassignReviewer") =>
                LET p == proc'[w].pr
                    u == proc'[w].user
                IN  CASE prs[p].status = "ABSENT" ->
                             proc'[w].pc = "done" /\ proc'[w].err = "NotFound"
                      [] prs[p].status = "MERGED" ->
                             proc'[w].pc = "done" /\ proc'[w].err = "PRMerged"
                      [] prs[p].status = "OPEN" /\ reviewers[p][u] = 0 ->
                             proc'[w].pc = "done" /\ proc'[w].err = "ReviewerNotAssigned"
                      [] OTHER ->
                             proc'[w].pc = "ra_team" /\ proc'[w].err = None
          /\ (/\ proc[w].op = "ReassignReviewer"
              /\ proc[w].pc # "done"
              /\ proc'[w].pc = "done"
              /\ proc'[w].err = "NoCandidate")
             => /\ proc[w].pc = "ra_pick"
                /\ proc[w].row.status = "OPEN"
                /\ proc[w].user \in SeqSet(proc[w].cur)]_vars

\* C36, its case: a call for a MERGED pull request and a user who is not
\* one of its reviewers has returned PRMerged
C36_Witness ==
    \E w \in Workers :
        /\ proc[w].pc = "done"
        /\ proc[w].op = "ReassignReviewer"
        /\ proc[w].err = "PRMerged"
        /\ prs[proc[w].pr].status = "MERGED"
        /\ RowCount(reviewers[proc[w].pr]) > 0
        /\ reviewers[proc[w].pr][proc[w].user] = 0

\* C37: of two CreatePR calls with the same new id that run concurrently
\* exactly one succeeds: the call that commits while the other is in flight
\* stores its pull request with exactly the reviewers it chose, the other
\* has written nothing and, unless a statement of it fails for another
\* reason, returns AlreadyExists and leaves every row as it was; never have
\* two calls for one id both succeeded
C37_ConcurrentCreatePR ==
    /\ [](\A w, v \in Workers :
             (/\ w # v
              /\ proc[w].pc = "done" /\ proc[w].op = "CreatePR"
              /\ proc[v].pc = "done" /\ proc[v].op = "CreatePR"
              /\ proc[w].pr = proc[v].pr)
             => ~(proc[w].committed /\ proc[v].committed))
    /\ [][\A w, v \in Workers :
             (/\ w # v
              /\ proc[w].op = "CreatePR" /\ proc[v].op = "CreatePR"
              /\ proc[w].pr = proc[v].pr
              /\ proc[w].pc \notin {"idle", "done"}
              /\ proc[v].pc \notin {"idle", "done"})
             => /\ (proc'[w].pc = "done" /\ proc'[w].err = None)
                   => /\ proc'[w].committed
                      /\ prs[proc[w].pr].status = "ABSENT"
                      /\ prs'[proc[w].pr] = proc[w].row
                      /\ reviewers'[proc[w].pr] = ToRows(proc[w].ids)
                      /\ proc'[w].ids = proc[w].ids
                      /\ proc[v].pendRev = <<>>
                      /\ proc[v].pendPR = NoPR
                /\ (proc'[w].pc = "done" /\ proc'[w].err # None)
                   => /\ ~proc'[w].committed
                      /\ prs' = prs
                      /\ reviewers' = reviewers]_vars
    /\ [][\A w \in Workers :
             (/\ proc[w].op = "CreatePR"
              /\ proc[w].pc \notin {"idle", "done"}
              /\ proc'[w].pc = "done"
              /\ prs[proc[w].pr].status # "ABSENT")
             => /\ proc'[w].err \in {"AlreadyExists", "Internal"}
                /\ ~proc'[w].committed
                /\ prs' = prs
                /\ reviewers' = reviewers]_vars

\* C37, its case: one of two concurrent CreatePR calls with the same id has
\* committed with two reviewers while the other, which chose other
\* reviewers, is about to insert
C37_Witness ==
    \E w, v \in Workers :
        /\ proc[w].pc = "done"
        /\ proc[w].op = "CreatePR"
        /\ proc[w].committed
        /\ proc[v].op = "CreatePR"
        /\ proc[v].pc = "cp_insert"
        /\ proc[v].pr = proc[w].pr
        /\ Len(proc[w].ids) = 2
        /\ SeqSet(proc[v].ids) # SeqSet(proc[w].ids)
        /\ reviewers[proc[w].pr] = ToRows(proc[w].ids)

\* C38: no step changes the number of reviewer rows of a pull request that
\* exists, whether a MergePR, a ReassignReviewer or a DeactivateTeam call
\* commits or fails in it, and the rows a transaction of one of these calls
\* sees for a pull request are as many as the committed ones
C38_ReviewerCountIsFixed ==
    /\ [](\A w \in Workers, p \in PRIDs :
             (/\ proc[w].op \in {"MergePR", "ReassignReviewer", "DeactivateTeam"}
              /\ prs[p].status # "ABSENT")
             => RowCount(TxRows(proc[w], p)) = RowCount(reviewers[p]))
    /\ [][\A p \in PRIDs :
             prs[p].status # "ABSENT" =>
                 RowCount(reviewers'[p]) = RowCount(reviewers[p])]_vars

\* C38, its case: a pull request with two reviewers, one of whom a
\* committed ReassignReviewer put there, has been merged by another call
C38_Witness ==
    \E w, v \in Workers :
        /\ proc[w].pc = "done"
        /\ proc[w].op = "ReassignReviewer"
        /\ proc[w].committed
        /\ proc[v].pc = "done"
        /\ proc[v].op = "MergePR"
        /\ proc[v].committed
        /\ proc[v].pr = proc[w].pr
        /\ prs[proc[w].pr].status = "MERGED"
        /\ reviewers[proc[w].pr][proc[w].newRev] = 1
        /\ reviewers[proc[w].pr][proc[w].user] = 0
        /\ RowCount(reviewers[proc[w].pr]) = 2

\* C39: the cascade writes only to reviewer slots of users the same call
\* deactivated: every replacement it has pending deletes the row of such a
\* user from a pull request that has it, and its commit leaves the rows of
\* reviewers it did not deactivate, the reviewer rows of every pull request
\* without a deactivated reviewer, and every pull_requests row as they were
C39_CascadeTouchesDeactivatedSlotsOnly ==
    /\ [](\A w \in Workers, p \in PRIDs :
             proc[w].op = "DeactivateTeam" =>
                 /\ DeletedReviewers(proc[w], p) \subseteq proc[w].deact
                 /\ DeletedReviewers(proc[w], p) \subseteq RowUsers(reviewers[p])
                 /\ proc[w].pendPR = NoPR)
    /\ [][\A w \in Workers :
             (/\ proc[w].pc = "dt_commit"
              /\ proc'[w].pc = "done"
              /\ proc'[w].committed)
             => /\ prs' = prs
                /\ \A p \in PRIDs :
                      /\ \A u \in Users \ proc[w].deact :
                            reviewers[p][u] > 0 => reviewers'[p][u] = reviewers[p][u]
                      /\ (RowUsers(reviewers[p]) \cap proc[w].deact = {})
                            => reviewers'[p] = reviewers[p]]_vars

\* C39, its case: a cascade about to commit has replaced a deactivated
\* reviewer of a pull request whose other reviewer it did not deactivate
C39_Witness ==
    \E w \in Workers, p \in PRIDs, u \in Users :
        /\ proc[w].pc = "dt_commit"
        /\ DeletedReviewers(proc[w], p) # {}
        /\ u \notin proc[w].deact
        /\ reviewers[p][u] > 0
        /\ TxRows(proc[w], p)[u] > 0

\* C40: a SetIsActive call changes nothing but the is_active of its user:
\* for a user with a row it sets the flag and returns it, leaving the
\* user's team, every other users row, every team, every pull request and
\* every reviewer row as they were, so a deactivated reviewer stays
\* assigned; for a user without a row it returns NotFound and changes nothing
C40_SetIsActiveFrame ==
    [][\A w \in Workers :
          (proc[w].pc = "idle" /\ proc'[w].op = "SetIsActive") =>
              LET u == proc'[w].user IN
              /\ proc'[w].pc = "done"
              /\ prs' = prs
              /\ reviewers' = reviewers
              /\ teams' = teams
              /\ \A x \in Users \ {u} : users'[x] = users[x]
              /\ users'[u].team = users[u].team
              /\ IF users[u].team = None
                 THEN /\ proc'[w].err = "NotFound"
                      /\ ~proc'[w].committed
                      /\ users' = users
                 ELSE /\ proc'[w].err = None
                      /\ users'[u].active = proc'[w].flag]_vars

\* C40, its case: a call has deactivated a user who is still a reviewer of
\* an OPEN pull request, and another call for a user without a row has
\* returned NotFound
C40_Witness ==
    \E w, v \in Workers :
        /\ proc[w].pc = "done"
        /\ proc[w].op = "SetIsActive"
        /\ proc[w].err = None
        /\ ~proc[w].flag
        /\ ~users[proc[w].user].active
        /\ \E p \in PRIDs : prs[p].status = "OPEN" /\ reviewers[p][proc[w].user] > 0
        /\ proc[v].pc = "done"
        /\ proc[v].op = "SetIsActive"
        /\ proc[v].err = "NotFound"

=============================================================================
